---- MODULE Spec2Model ----
(***************************************************************************)
(* Double-entry ledger and transfer posting engine of jezdene-pay-magic.   *)
(* The store is the Postgres schema of the core banking migration          *)
(* (accounts, transfers, ledger_entries, the account_balances view and the *)
(* post_transfer procedure), together with the treasury seeding migration  *)
(* and the row operations the access policies permit.                      *)
(*                                                                         *)
(* post_transfer runs as one transaction under READ COMMITTED: its inserts *)
(* and its update are buffered per session (tx_entries, tx_update) and     *)
(* reach the committed tables only at Commit; an error or a crash discards *)
(* them.  SELECT ... FOR UPDATE takes the transfer's row lock.             *)
(* Amounts are NUMERIC(18,2) values counted in cents.                      *)
(***************************************************************************)
EXTENDS Integers, Sequences, FiniteSets, TLC

\* ---------------------------------------------------------------- bounds
MaxAccounts == 3
MaxTransfers == 1
MaxAmount == 1
MaxClock == 2
\* requests of the webhook that fail for a passing cause
MaxFailures == 1
\* rows of public.transactions
MaxTransactions == 2

\* ------------------------------------------------------------- universes
NULL == "NULL"            \* SQL NULL of a text column
NoRow == [null |-> TRUE]  \* an unassigned %ROWTYPE variable
NullRef == <<>>           \* SQL NULL of a reference or timestamp column
Ref(x) == <<x>>
Users == {"u1", "u2"}
platform_user_id == "platform"
Currencies == {"USD", "EUR"}
Sessions == {"s1", "s2"}
transfer_status == {"pending", "posted", "failed", "cancelled", "reversed"}
AccountIds == 1..MaxAccounts
TransferIds == 1..MaxTransfers
AmountInputs == 0..MaxAmount
TreasurySeedAmount == 100000000

\* error messages raised by post_transfer
NotFound == "Transfer % not found"
InvalidState == "Transfer % is not pending"
InvalidAccount == "Invalid accounts for transfer %"
CurrencyMismatch == "Currency mismatch for transfer %"
Ok == "ok"
Aborted == "aborted"
NoResult == "none"

VARIABLES
  accounts,        \* public.accounts: id -> row, for the rows that exist
  transfers,       \* public.transfers: id -> row, for the rows that exist
  ledger_entries,  \* public.ledger_entries, in insertion order
  migrated,        \* the treasury setup migration has run
  clock,           \* now(): advances when a transaction begins
  lock,            \* row lock of each transfer: holding session or NULL
  pc,              \* position of each session inside post_transfer
  _transfer_id,    \* argument of the running / last call
  t,               \* the row read by SELECT ... FOR UPDATE
  from_currency,
  to_currency,
  txn_start,       \* value of now() inside the transaction
  tx_entries,      \* uncommitted ledger inserts of the transaction
  tx_update,       \* uncommitted UPDATE of the transfer row
  waited,          \* the call blocked on the row lock
  interrupted_at,  \* where the last call was interrupted, if it was
  result,          \* outcome of the last call of each session
  probe,           \* one evaluation of post_transfer's chain of checks
  last,            \* the last request served by the store and its response
  handler,         \* the internal-transfer handler's request in progress
  script,          \* test-balance-fix.js: its position and its account
  creating,        \* createDefaultAccount: the tabs past their select
  deleted,         \* the ids of the deleted rows (a uuid is not given twice)
  seen,            \* the rows returned by the last read of account_balances
  transactions,    \* public.transactions, in insertion order
  webhook          \* the Stripe webhook: its event, environment and deliveries

vars == <<accounts, transfers, ledger_entries, migrated, clock, lock, pc,
          _transfer_id, t, from_currency, to_currency, txn_start,
          tx_entries, tx_update, waited, interrupted_at, result, probe,
          last, handler, script, creating, deleted, seen, transactions,
          webhook>>

\* state of the requests made through the table API and the handlers
app_vars == <<last, handler, script, creating, deleted, seen, transactions,
             webhook>>

\* the scripts and pages that run beside the requests
other_vars == <<script, creating, deleted, seen, transactions, webhook>>

\* reads, and the Stripe webhook with its table
rest_vars == <<seen, transactions, webhook>>

store == <<accounts, transfers, ledger_entries>>

\* ------------------------------------------------------------ sequences
RECURSIVE SumSeq(_)
SumSeq(s) == IF s = <<>> THEN 0 ELSE Head(s) + SumSeq(Tail(s))

Indices(seq) == 1..Len(seq)

\* --------------------------------------------------------------- schema
account_row(user_id, currency, name) ==
  [user_id |-> user_id, type |-> "wallet", currency |-> currency,
   status |-> "active", name |-> name]

transfer_row(from, to, amount, currency, initiated_by) ==
  [from_account_id |-> from, to_account_id |-> to, amount |-> amount,
   currency |-> currency, status |-> "pending", initiated_by |-> initiated_by,
   posted_at |-> NullRef, failed_reason |-> NULL]

ledger_row(account_id, transfer_id, type, amount, currency) ==
  [account_id |-> account_id, transfer_id |-> transfer_id, type |-> type,
   amount |-> amount, currency |-> currency]

\* CHECK constraints of public.transfers
transfers_positive_amount(amount) == amount > 0

\* mutant: the constraint on the two accounts is missing
transfers_accounts_any(from, to) == TRUE

transfers_accounts_distinct(from, to) == from # to

\* mutant: the index is not unique
accounts_user_type_currency_name_idx(accs) == TRUE

\* unique index on (user_id, type, currency, name)
accounts_user_type_currency_name_uidx(accs) ==
  \A a, b \in DOMAIN accs :
    (a # b) =>
      <<accs[a].user_id, accs[a].type, accs[a].currency, accs[a].name>> #
      <<accs[b].user_id, accs[b].type, accs[b].currency, accs[b].name>>

FreeAccountIds == AccountIds \ (DOMAIN accounts \cup deleted.accounts)
FreeTransferIds == TransferIds \ (DOMAIN transfers \cup deleted.transfers)
Min(S) == CHOOSE x \in S : \A y \in S : x <= y

\* the table with one more row
Insert(table, id, row) ==
  [x \in DOMAIN table \cup {id} |-> IF x = id THEN row ELSE table[x]]

\* ------------------------------------------------- view account_balances
CaseSum(account_id, type) ==
  SumSeq([i \in Indices(ledger_entries) |->
            IF ledger_entries[i].account_id = account_id
               /\ ledger_entries[i].type = type
            THEN ledger_entries[i].amount ELSE 0])

\* mutant: the debits are added instead of subtracted
balance_unsigned(account_id) ==
  CaseSum(account_id, "credit") + CaseSum(account_id, "debit")

balance(account_id) == CaseSum(account_id, "credit") - CaseSum(account_id, "debit")

\* ------------------------------------------------------------------ Init
NoProbe == [found |-> FALSE, status |-> NULL, from_currency |-> NULL,
            to_currency |-> NULL, currency |-> NULL, outcome |-> NoResult]

\* no request has been served yet
NoLast == [op |-> "none", caller |-> NULL, response |-> NoResult]

\* the internal-transfer handler serves no request
NoRequest == [pc |-> "idle", caller |-> NULL, id |-> 0]

NoneDeleted == [accounts |-> {}, transfers |-> {}]

\* test-balance-fix.js is not running
\* nothing has been read yet
NoRead == [rows |-> <<>>, in_flight |-> {}]

\* the Stripe webhook: no event is delivered to it
Deliveries == {"d1", "d2"}
NoResponse == [status |-> 0, body |-> NULL]
NoDelivery == [pc |-> "idle", platformAccountId |-> 0, sellerAccountId |-> 0,
               createdTransfer |-> 0, response |-> NoResponse]
NoEvent == [type |-> NULL, metadata |-> FALSE, seller_account |-> NULL]
NoWebhook == [event |-> NoEvent, platformUserId |-> NULL, acked |-> FALSE,
              failed |-> 0, delivery |-> [d \in Deliveries |-> NoDelivery]]

NoScript == [pc |-> "idle", account |-> 0]

Init ==
  /\ accounts = <<>>
  /\ transfers = <<>>
  /\ ledger_entries = <<>>
  /\ migrated = FALSE
  /\ clock = 0
  /\ lock = [x \in TransferIds |-> NULL]
  /\ pc = [s \in Sessions |-> "idle"]
  /\ _transfer_id = [s \in Sessions |-> 1]
  /\ t = [s \in Sessions |-> NoRow]
  /\ from_currency = [s \in Sessions |-> NULL]
  /\ to_currency = [s \in Sessions |-> NULL]
  /\ txn_start = [s \in Sessions |-> 0]
  /\ tx_entries = [s \in Sessions |-> <<>>]
  /\ tx_update = [s \in Sessions |-> FALSE]
  /\ waited = [s \in Sessions |-> FALSE]
  /\ interrupted_at = [s \in Sessions |-> "none"]
  /\ result = [s \in Sessions |-> NoResult]
  /\ probe = NoProbe
  /\ last = NoLast
  /\ handler = NoRequest
  /\ script = NoScript
  /\ creating = {}
  /\ deleted = NoneDeleted
  /\ seen = NoRead
  /\ transactions = <<>>
  /\ webhook = NoWebhook

session_vars == <<lock, pc, _transfer_id, t, from_currency, to_currency,
                  txn_start, tx_entries, tx_update, waited, interrupted_at,
                  result, probe, app_vars>>

\* ------------------------------------------------------- row operations
\* createMainAccount: the signed-in user inserts a USD wallet named Main
CreateAccount(caller) ==
  /\ FreeAccountIds # {}
  /\ LET id == Min(FreeAccountIds)
         accs == Insert(accounts, id, account_row(caller, "USD", "Main"))
     IN /\ accounts_user_type_currency_name_uidx(accs)
        /\ accounts' = accs
  /\ UNCHANGED <<transfers, ledger_entries, migrated, clock, session_vars>>

\* UPDATE accounts SET currency under policy "Users own accounts"
UpdateAccountCurrency(caller, id, currency) ==
  /\ id \in DOMAIN accounts
  /\ accounts[id].user_id = caller
  /\ accounts[id].currency # currency
  /\ LET accs == [accounts EXCEPT ![id].currency = currency]
     IN /\ accounts_user_type_currency_name_uidx(accs)
        /\ accounts' = accs
  /\ UNCHANGED <<transfers, ledger_entries, migrated, clock, session_vars>>

\* WITH CHECK of policy "Users can create transfers from own accounts"
transfers_insert_policy(caller, from, to, initiated_by) ==
  /\ caller = initiated_by
  /\ from \in DOMAIN accounts /\ accounts[from].user_id = caller
  /\ to \in DOMAIN accounts

\* INSERT INTO transfers as submitTransfer does it (status defaults to pending)
InsertTransfer(caller, from, to, amount, currency) ==
  /\ FreeTransferIds # {}
  /\ transfers_insert_policy(caller, from, to, caller)
  /\ transfers_positive_amount(amount)
  /\ transfers_accounts_distinct(from, to)
  /\ transfers' = Insert(transfers, Min(FreeTransferIds),
                          transfer_row(from, to, amount, currency, caller))
  /\ UNCHANGED <<accounts, ledger_entries, migrated, clock, session_vars>>

\* ------------------------------------------- treasury setup migration
TreasuryAccounts(accs) ==
  {a \in DOMAIN accs : accs[a].user_id = platform_user_id
                      /\ accs[a].currency = "USD" /\ accs[a].name = "Treasury"}

HasEntries(a) == \E i \in Indices(ledger_entries) : ledger_entries[i].account_id = a

TreasurySeed ==
  /\ ~migrated
  /\ TreasuryAccounts(accounts) # {} \/ FreeAccountIds # {}
  /\ LET accs == IF TreasuryAccounts(accounts) # {} THEN accounts
                 ELSE Insert(accounts, Min(FreeAccountIds),
                             account_row(platform_user_id, "USD", "Treasury"))
         a == CHOOSE x \in TreasuryAccounts(accs) : TRUE
     IN /\ accounts' = accs
        /\ ledger_entries' =
             IF HasEntries(a) THEN ledger_entries
             ELSE Append(ledger_entries,
                         ledger_row(a, NullRef, "credit", TreasurySeedAmount, "USD"))
  /\ migrated' = TRUE
  /\ UNCHANGED <<transfers, clock, session_vars>>

\* ------------------------------------------------------- post_transfer
\* mutant: the status check is missing
status_check_none(row) == FALSE

\* IF t.status <> 'pending'
status_check(row) == row.status # "pending"

\* IF from_currency IS NULL OR to_currency IS NULL
\* mutant: only the source account is looked at
accounts_check_source_only(fc, tc) == fc = NULL

accounts_check(fc, tc) == fc = NULL \/ tc = NULL

\* mutant: only the source account's currency is compared
currency_check_source_only(fc, tc, currency) == fc # currency

\* IF from_currency <> t.currency OR to_currency <> t.currency
currency_check(fc, tc, currency) == fc # currency \/ tc # currency

\* IF NOT FOUND ... IF t.status <> 'pending' ...: the first error, or Ok
transfer_checks(found, row) ==
  IF ~found THEN NotFound
  ELSE IF status_check(row) THEN InvalidState
  ELSE Ok

\* IF ... IS NULL ... IF ... <> t.currency ...: the first error, or Ok
account_checks(fc, tc, currency) ==
  IF accounts_check(fc, tc) THEN InvalidAccount
  ELSE IF currency_check(fc, tc, currency) THEN CurrencyMismatch
  ELSE Ok

\* mutant: the accounts are validated before the transfer's state
post_transfer_checks_accounts_first(found, row, fc, tc, currency) ==
  IF ~found THEN NotFound
  ELSE IF account_checks(fc, tc, currency) # Ok THEN account_checks(fc, tc, currency)
  ELSE transfer_checks(found, row)

\* the whole chain of checks of post_transfer, in the order of the code
post_transfer_checks(found, row, fc, tc, currency) ==
  IF transfer_checks(found, row) # Ok THEN transfer_checks(found, row)
  ELSE account_checks(fc, tc, currency)

\* SELECT currency FROM accounts WHERE id = ...
CurrencyOf(id) == IF id \in DOMAIN accounts THEN accounts[id].currency ELSE NULL

\* mutant: the debit line is written with type credit
debit_entry_as_credit(id, row) ==
  ledger_row(row.from_account_id, Ref(id), "credit", row.amount, row.currency)

debit_entry(id, row) ==
  ledger_row(row.from_account_id, Ref(id), "debit", row.amount, row.currency)

\* mutant: the credit line is written on the source account
credit_entry_on_source(id, row) ==
  ledger_row(row.from_account_id, Ref(id), "credit", row.amount, row.currency)

credit_entry(id, row) ==
  ledger_row(row.to_account_id, Ref(id), "credit", row.amount, row.currency)

\* mutant: the UPDATE marks the transfer reversed
posted_row_reversed(row, now) ==
  [row EXCEPT !.status = "reversed", !.posted_at = Ref(now)]

\* the UPDATE of post_transfer applied to a row
posted_row(row, now) == [row EXCEPT !.status = "posted", !.posted_at = Ref(now)]

InTransaction(s) == pc[s] # "idle"

\* the transaction ends without committing: buffered writes are dropped and
\* the row lock is released
Rollback(s, outcome) ==
  /\ pc' = [pc EXCEPT ![s] = "idle"]
  /\ result' = [result EXCEPT ![s] = outcome]
  /\ lock' = [x \in DOMAIN lock |-> IF lock[x] = s THEN NULL ELSE lock[x]]
  /\ t' = [t EXCEPT ![s] = NoRow]
  /\ from_currency' = [from_currency EXCEPT ![s] = NULL]
  /\ to_currency' = [to_currency EXCEPT ![s] = NULL]
  /\ tx_entries' = [tx_entries EXCEPT ![s] = <<>>]
  /\ tx_update' = [tx_update EXCEPT ![s] = FALSE]
  /\ UNCHANGED <<probe, app_vars, accounts, transfers, ledger_entries, migrated, clock,
                 _transfer_id, txn_start, waited>>

\* RAISE EXCEPTION: the function's transaction is rolled back
Raise(s, message) ==
  /\ Rollback(s, message)
  /\ UNCHANGED interrupted_at

\* a caller invokes post_transfer(tid); the call runs in its own transaction
PostTransferCall(s, tid) ==
  /\ pc[s] = "idle"
  /\ clock < MaxClock
  /\ clock' = clock + 1
  /\ txn_start' = [txn_start EXCEPT ![s] = clock + 1]
  /\ pc' = [pc EXCEPT ![s] = "select_transfer"]
  /\ _transfer_id' = [_transfer_id EXCEPT ![s] = tid]
  /\ result' = [result EXCEPT ![s] = NoResult]
  /\ waited' = [waited EXCEPT ![s] = FALSE]
  /\ interrupted_at' = [interrupted_at EXCEPT ![s] = "none"]
  /\ UNCHANGED <<probe, app_vars, accounts, transfers, ledger_entries, migrated, lock, t,
                 from_currency, to_currency, tx_entries, tx_update>>

\* mutant: the call waits while any transfer row is locked by another call
WaitForTableLock(s) ==
  /\ pc[s] = "select_transfer"
  /\ _transfer_id[s] \in DOMAIN transfers
  /\ \E x \in DOMAIN lock : lock[x] \notin {NULL, s}
  /\ pc' = [pc EXCEPT ![s] = "lock_wait"]
  /\ waited' = [waited EXCEPT ![s] = TRUE]
  /\ UNCHANGED <<probe, app_vars, accounts, transfers, ledger_entries, migrated, clock, lock,
                 _transfer_id, t, from_currency, to_currency, txn_start,
                 tx_entries, tx_update, interrupted_at, result>>

\* SELECT ... FOR UPDATE finds the row locked by another transaction and waits
WaitForLock(s) ==
  /\ pc[s] = "select_transfer"
  /\ _transfer_id[s] \in DOMAIN transfers
  /\ lock[_transfer_id[s]] \notin {NULL, s}
  /\ pc' = [pc EXCEPT ![s] = "lock_wait"]
  /\ waited' = [waited EXCEPT ![s] = TRUE]
  /\ UNCHANGED <<probe, app_vars, accounts, transfers, ledger_entries, migrated, clock, lock,
                 _transfer_id, t, from_currency, to_currency, txn_start,
                 tx_entries, tx_update, interrupted_at, result>>

\* mutant: a plain SELECT, without FOR UPDATE
SelectTransferNoLock(s) ==
  /\ pc[s] \in {"select_transfer", "lock_wait"}
  /\ LET id == _transfer_id[s] IN
       IF id \notin DOMAIN transfers THEN Raise(s, NotFound)
       ELSE IF status_check(transfers[id]) THEN Raise(s, InvalidState)
       ELSE /\ t' = [t EXCEPT ![s] = transfers[id]]
            /\ pc' = [pc EXCEPT ![s] = "select_from"]
            /\ UNCHANGED <<probe, app_vars, accounts, transfers, ledger_entries, migrated,
                           clock, lock, _transfer_id, from_currency, to_currency,
                           txn_start, tx_entries, tx_update, waited,
                           interrupted_at, result>>

\* SELECT * INTO t ... FOR UPDATE; IF NOT FOUND; IF t.status <> 'pending'
SelectTransferForUpdate(s) ==
  /\ pc[s] \in {"select_transfer", "lock_wait"}
  /\ LET id == _transfer_id[s]
         found == id \in DOMAIN transfers
         row == IF found THEN transfers[id] ELSE NoRow
     IN /\ found => lock[id] = NULL
        /\ IF transfer_checks(found, row) # Ok
           THEN Raise(s, transfer_checks(found, row))
           ELSE /\ lock' = [lock EXCEPT ![id] = s]
                /\ t' = [t EXCEPT ![s] = row]
                /\ pc' = [pc EXCEPT ![s] = "select_from"]
                /\ UNCHANGED <<probe, app_vars, accounts, transfers, ledger_entries, migrated,
                               clock, _transfer_id, from_currency, to_currency,
                               txn_start, tx_entries, tx_update, waited,
                               interrupted_at, result>>

\* SELECT currency INTO from_currency
SelectFromCurrency(s) ==
  /\ pc[s] = "select_from"
  /\ from_currency' = [from_currency EXCEPT ![s] = CurrencyOf(t[s].from_account_id)]
  /\ pc' = [pc EXCEPT ![s] = "select_to"]
  /\ UNCHANGED <<probe, app_vars, accounts, transfers, ledger_entries, migrated, clock, lock,
                 _transfer_id, t, to_currency, txn_start, tx_entries, tx_update,
                 waited, interrupted_at, result>>

\* mutant: a currency mismatch marks the transfer failed before raising
SelectToCurrencyMarkFailed(s) ==
  /\ pc[s] = "select_to"
  /\ LET tc == CurrencyOf(t[s].to_account_id) IN
       IF accounts_check(from_currency[s], tc) THEN Raise(s, InvalidAccount)
       ELSE IF currency_check(from_currency[s], tc, t[s].currency)
            THEN /\ transfers' = [transfers EXCEPT ![_transfer_id[s]] =
                                    [@ EXCEPT !.status = "failed",
                                              !.failed_reason = CurrencyMismatch]]
                 /\ pc' = [pc EXCEPT ![s] = "idle"]
                 /\ result' = [result EXCEPT ![s] = CurrencyMismatch]
                 /\ lock' = [x \in DOMAIN lock |-> IF lock[x] = s THEN NULL ELSE lock[x]]
                 /\ t' = [t EXCEPT ![s] = NoRow]
                 /\ from_currency' = [from_currency EXCEPT ![s] = NULL]
                 /\ UNCHANGED <<probe, app_vars, accounts, ledger_entries, migrated, clock,
                                _transfer_id, to_currency, txn_start, tx_entries,
                                tx_update, waited, interrupted_at>>
       ELSE /\ to_currency' = [to_currency EXCEPT ![s] = tc]
            /\ pc' = [pc EXCEPT ![s] = "insert_debit"]
            /\ UNCHANGED <<probe, app_vars, accounts, transfers, ledger_entries, migrated, clock,
                           lock, _transfer_id, t, from_currency, txn_start,
                           tx_entries, tx_update, waited, interrupted_at,
                           result>>

\* SELECT currency INTO to_currency; the two IFs that follow it
SelectToCurrency(s) ==
  /\ pc[s] = "select_to"
  /\ LET tc == CurrencyOf(t[s].to_account_id) IN
       IF account_checks(from_currency[s], tc, t[s].currency) # Ok
       THEN Raise(s, account_checks(from_currency[s], tc, t[s].currency))
       ELSE /\ to_currency' = [to_currency EXCEPT ![s] = tc]
            /\ pc' = [pc EXCEPT ![s] = "insert_debit"]
            /\ UNCHANGED <<probe, app_vars, accounts, transfers, ledger_entries, migrated, clock,
                           lock, _transfer_id, t, from_currency, txn_start,
                           tx_entries, tx_update, waited, interrupted_at,
                           result>>

\* mutant: the debit insert is committed on its own, outside the transaction
InsertDebitAutocommit(s) ==
  /\ pc[s] = "insert_debit"
  /\ ledger_entries' = Append(ledger_entries, debit_entry(_transfer_id[s], t[s]))
  /\ pc' = [pc EXCEPT ![s] = "insert_credit"]
  /\ UNCHANGED <<probe, app_vars, accounts, transfers, migrated, clock, lock, _transfer_id, t,
                 from_currency, to_currency, txn_start, tx_entries, tx_update,
                 waited, interrupted_at, result>>

\* INSERT INTO ledger_entries ... 'debit'
InsertDebit(s) ==
  /\ pc[s] = "insert_debit"
  /\ tx_entries' = [tx_entries EXCEPT ![s] = Append(@, debit_entry(_transfer_id[s], t[s]))]
  /\ pc' = [pc EXCEPT ![s] = "insert_credit"]
  /\ UNCHANGED <<probe, app_vars, accounts, transfers, ledger_entries, migrated, clock, lock,
                 _transfer_id, t, from_currency, to_currency, txn_start,
                 tx_update, waited, interrupted_at, result>>

\* INSERT INTO ledger_entries ... 'credit'
InsertCredit(s) ==
  /\ pc[s] = "insert_credit"
  /\ tx_entries' = [tx_entries EXCEPT ![s] = Append(@, credit_entry(_transfer_id[s], t[s]))]
  /\ pc' = [pc EXCEPT ![s] = "update_transfer"]
  /\ UNCHANGED <<probe, app_vars, accounts, transfers, ledger_entries, migrated, clock, lock,
                 _transfer_id, t, from_currency, to_currency, txn_start,
                 tx_update, waited, interrupted_at, result>>

\* UPDATE transfers SET status = 'posted', posted_at = now()
UpdateTransfer(s) ==
  /\ pc[s] = "update_transfer"
  /\ tx_update' = [tx_update EXCEPT ![s] = TRUE]
  /\ pc' = [pc EXCEPT ![s] = "commit"]
  /\ UNCHANGED <<probe, app_vars, accounts, transfers, ledger_entries, migrated, clock, lock,
                 _transfer_id, t, from_currency, to_currency, txn_start,
                 tx_entries, waited, interrupted_at, result>>

\* mutant: the commit leaves the row lock of the transfer in place
CommitKeepingLock(s) ==
  /\ pc[s] = "commit"
  /\ ledger_entries' = ledger_entries \o tx_entries[s]
  /\ transfers' = IF tx_update[s]
                  THEN [transfers EXCEPT ![_transfer_id[s]] = posted_row(@, txn_start[s])]
                  ELSE transfers
  /\ pc' = [pc EXCEPT ![s] = "idle"]
  /\ result' = [result EXCEPT ![s] = Ok]
  /\ t' = [t EXCEPT ![s] = NoRow]
  /\ from_currency' = [from_currency EXCEPT ![s] = NULL]
  /\ to_currency' = [to_currency EXCEPT ![s] = NULL]
  /\ tx_entries' = [tx_entries EXCEPT ![s] = <<>>]
  /\ tx_update' = [tx_update EXCEPT ![s] = FALSE]
  /\ UNCHANGED <<probe, app_vars, accounts, migrated, clock, lock, _transfer_id,
                 txn_start, waited, interrupted_at>>

\* END: the function returns and its transaction commits
Commit(s) ==
  /\ pc[s] = "commit"
  /\ ledger_entries' = ledger_entries \o tx_entries[s]
  /\ transfers' = IF tx_update[s]
                  THEN [transfers EXCEPT ![_transfer_id[s]] = posted_row(@, txn_start[s])]
                  ELSE transfers
  /\ pc' = [pc EXCEPT ![s] = "idle"]
  /\ result' = [result EXCEPT ![s] = Ok]
  /\ lock' = [x \in DOMAIN lock |-> IF lock[x] = s THEN NULL ELSE lock[x]]
  /\ t' = [t EXCEPT ![s] = NoRow]
  /\ from_currency' = [from_currency EXCEPT ![s] = NULL]
  /\ to_currency' = [to_currency EXCEPT ![s] = NULL]
  /\ tx_entries' = [tx_entries EXCEPT ![s] = <<>>]
  /\ tx_update' = [tx_update EXCEPT ![s] = FALSE]
  /\ UNCHANGED <<probe, app_vars, accounts, migrated, clock, _transfer_id, txn_start, waited,
                 interrupted_at>>

\* the call is interrupted (crash, cancelled statement, lost connection)
Abort(s) ==
  /\ InTransaction(s)
  /\ Rollback(s, Aborted)
  /\ interrupted_at' = [interrupted_at EXCEPT ![s] = pc[s]]

\* ------------------------------------------------------------------ Next
Next ==
  \/ \E u \in Users : CreateAccount(u)
  \/ \E u \in Users, a \in AccountIds, c \in Currencies : UpdateAccountCurrency(u, a, c)
  \/ \E u \in Users, a, b \in AccountIds, m \in AmountInputs, c \in Currencies :
       InsertTransfer(u, a, b, m, c)
  \/ TreasurySeed
  \/ \E s \in Sessions, x \in TransferIds : PostTransferCall(s, x)
  \/ \E s \in Sessions : WaitForLock(s)
  \/ \E s \in Sessions : SelectTransferForUpdate(s)
  \/ \E s \in Sessions : SelectFromCurrency(s)
  \/ \E s \in Sessions : SelectToCurrency(s)
  \/ \E s \in Sessions : InsertDebit(s)
  \/ \E s \in Sessions : InsertCredit(s)
  \/ \E s \in Sessions : UpdateTransfer(s)
  \/ \E s \in Sessions : Commit(s)
  \/ \E s \in Sessions : Abort(s)

Spec == Init /\ [][Next]_vars

\* ------------------------------------------------- the checks on their own
\* post_transfer's chain of checks as a function of what its three SELECTs
\* return: whether the transfer row was found, the row's status and currency,
\* and the two account currencies (NULL when the account row is missing)
InitChecks ==
  /\ accounts = <<>>
  /\ transfers = <<>>
  /\ ledger_entries = <<>>
  /\ migrated = FALSE
  /\ clock = 0
  /\ lock = [x \in TransferIds |-> NULL]
  /\ pc = [s \in Sessions |-> "idle"]
  /\ _transfer_id = [s \in Sessions |-> 1]
  /\ t = [s \in Sessions |-> NoRow]
  /\ from_currency = [s \in Sessions |-> NULL]
  /\ to_currency = [s \in Sessions |-> NULL]
  /\ txn_start = [s \in Sessions |-> 0]
  /\ tx_entries = [s \in Sessions |-> <<>>]
  /\ tx_update = [s \in Sessions |-> FALSE]
  /\ waited = [s \in Sessions |-> FALSE]
  /\ interrupted_at = [s \in Sessions |-> "none"]
  /\ result = [s \in Sessions |-> NoResult]
  /\ last = NoLast
  /\ handler = NoRequest
  /\ script = NoScript
  /\ creating = {}
  /\ deleted = NoneDeleted
  /\ seen = NoRead
  /\ transactions = <<>>
  /\ webhook = NoWebhook
  /\ probe \in [found : BOOLEAN, status : transfer_status,
                 from_currency : Currencies \cup {NULL},
                 to_currency : Currencies \cup {NULL},
                 currency : Currencies, outcome : {NoResult}]

RunChecks ==
  /\ probe.outcome = NoResult
  /\ probe' = [probe EXCEPT !.outcome =
                 post_transfer_checks(probe.found, [status |-> probe.status],
                                      probe.from_currency, probe.to_currency,
                                      probe.currency)]
  /\ UNCHANGED <<accounts, transfers, ledger_entries, migrated, clock,
                 lock, pc, _transfer_id, t, from_currency, to_currency,
                 txn_start, tx_entries, tx_update, waited, interrupted_at,
                 result, app_vars>>

NextChecks == RunChecks

SpecChecks == InitChecks /\ [][NextChecks]_vars

\* =================================================================
\* The store as its callers see it: requests served one at a time
\* =================================================================
\* the variables of the post_transfer sessions, which these requests leave alone
call_vars == <<lock, pc, _transfer_id, t, from_currency, to_currency,
               txn_start, tx_entries, tx_update, waited, interrupted_at,
               result, probe>>

Admins == {"admin"}
Callers == Users \cup Admins
AmountRequests == -1..MaxAmount
StatusInputs == {"pending", "posted"}  \* the status a direct insert names

\* public.has_role(auth.uid(), 'admin')
has_role(uid, role) == role = "admin" /\ uid \in Admins

\* errors of the table API
RlsViolation == "new row violates row-level security policy"
SameAccount == "violates check constraint transfers_accounts_distinct"
InvalidAmount == "violates check constraint transfers_positive_amount"
DuplicateAccount == "duplicate key value violates unique constraint accounts_user_type_currency_name_uidx"
FkViolation == "violates foreign key constraint"

Served(op, caller, response) ==
  last' = [op |-> op, caller |-> caller, response |-> response]

\* ---------------------------------------------------- accounts, by row
\* WITH CHECK of "Users own accounts" or of "Admins can manage all accounts"
accounts_policy(caller, user_id) == caller = user_id \/ has_role(caller, "admin")

\* the error of INSERT INTO accounts, or Ok: policy first, then the unique index
accounts_insert_response(caller, row) ==
  IF ~accounts_policy(caller, row.user_id) THEN RlsViolation
  ELSE IF ~accounts_user_type_currency_name_uidx(Insert(accounts, 0, row))
  THEN DuplicateAccount
  ELSE Ok

\* INSERT INTO accounts through the table API (createMainAccount,
\* createDefaultAccount: a USD wallet named Main for the signed-in user)
InsertAccountRow(caller, user_id, currency, name) ==
  LET row == account_row(user_id, currency, name)
      response == accounts_insert_response(caller, row)
  IN /\ response = Ok => FreeAccountIds # {}
     /\ accounts' = IF response = Ok
                    THEN Insert(accounts, Min(FreeAccountIds), row)
                    ELSE accounts
     /\ Served("insert_account", caller, response)
     /\ UNCHANGED <<transfers, ledger_entries, migrated, clock, call_vars, handler, other_vars>>

\* --------------------------------------------------- transfers, by row
\* the error of INSERT INTO transfers, or Ok: the policies' WITH CHECK first,
\* then the CHECK constraints in the order of their names, then the
\* foreign keys
transfers_insert_response(caller, from, to, amount, initiated_by) ==
  IF ~(transfers_insert_policy(caller, from, to, initiated_by)
       \/ has_role(caller, "admin"))
  THEN RlsViolation
  ELSE IF ~transfers_accounts_distinct(from, to) THEN SameAccount
  ELSE IF ~transfers_positive_amount(amount) THEN InvalidAmount
  ELSE IF ~(from \in DOMAIN accounts /\ to \in DOMAIN accounts) THEN FkViolation
  ELSE Ok

\* INSERT INTO transfers through the table API; the caller supplies the
\* columns, status included when the caller names it (DEFAULT 'pending')
InsertTransferRow(caller, from, to, amount, currency, status) ==
  LET response == transfers_insert_response(caller, from, to, amount, caller)
      row == [transfer_row(from, to, amount, currency, caller)
                EXCEPT !.status = status]
  IN /\ response = Ok => FreeTransferIds # {}
     /\ transfers' = IF response = Ok
                     THEN Insert(transfers, Min(FreeTransferIds), row)
                     ELSE transfers
     /\ Served("insert_transfer", caller, response)
     /\ UNCHANGED <<accounts, ledger_entries, migrated, clock, call_vars, handler, other_vars>>

\* USING of "Admins can manage all transfers": the rows an UPDATE or DELETE
\* of this caller can touch
transfers_manage_policy(caller) == has_role(caller, "admin")

\* UPDATE transfers SET status = ... WHERE id = ...; rows the policy hides
\* from the caller are not updated and no error is raised
UpdateTransferRow(caller, id, status) ==
  /\ transfers' = IF id \in DOMAIN transfers /\ transfers_manage_policy(caller)
                  THEN [transfers EXCEPT ![id].status = status]
                  ELSE transfers
  /\ Served("update_transfer", caller, Ok)
  /\ UNCHANGED <<accounts, ledger_entries, migrated, clock, call_vars, handler, other_vars>>

\* mutant: the entries of the transfer are deleted with it
transfer_id_cascade(id) ==
  SelectSeq(ledger_entries, LAMBDA e : e.transfer_id # Ref(id))

\* ledger_entries.transfer_id ... ON DELETE SET NULL
transfer_id_set_null(id) ==
  [i \in Indices(ledger_entries) |->
     IF ledger_entries[i].transfer_id = Ref(id)
     THEN [ledger_entries[i] EXCEPT !.transfer_id = NullRef]
     ELSE ledger_entries[i]]

\* DELETE FROM transfers WHERE id = ...
DeleteTransferRow(caller, id) ==
  LET removed == id \in DOMAIN transfers /\ transfers_manage_policy(caller)
  IN /\ transfers' = IF removed
                     THEN [x \in DOMAIN transfers \ {id} |-> transfers[x]]
                     ELSE transfers
     /\ ledger_entries' = IF removed THEN transfer_id_set_null(id)
                          ELSE ledger_entries
     /\ deleted' = IF removed
                   THEN [deleted EXCEPT !.transfers = @ \cup {id}]
                   ELSE deleted
     /\ Served("delete_transfer", caller, Ok)
     /\ UNCHANGED <<accounts, migrated, clock, call_vars, handler, script,
                    creating, rest_vars>>

\* ------------------------------------- post_transfer, as one request
\* what post_transfer(id) returns in the current state of the store
post_transfer_outcome(id) ==
  LET found == id \in DOMAIN transfers
      row == IF found THEN transfers[id] ELSE NoRow
  IN IF ~found THEN post_transfer_checks(FALSE, row, NULL, NULL, NULL)
     ELSE post_transfer_checks(TRUE, row, CurrencyOf(row.from_account_id),
                               CurrencyOf(row.to_account_id), row.currency)

\* the writes of the call, given what it returns
post_transfer_writes(id, outcome) ==
  /\ outcome = Ok => clock < MaxClock
  /\ IF outcome = Ok
     THEN /\ clock' = clock + 1
          /\ ledger_entries' = ledger_entries \o
               <<debit_entry(id, transfers[id]), credit_entry(id, transfers[id])>>
          /\ transfers' = [transfers EXCEPT ![id] = posted_row(@, clock + 1)]
     ELSE UNCHANGED <<clock, ledger_entries, transfers>>

\* the call made directly by a caller, given what it returns
post_transfer_apply(caller, id, outcome) ==
  /\ post_transfer_writes(id, outcome)
  /\ Served("post_transfer", caller, outcome)
  /\ UNCHANGED <<accounts, migrated, call_vars, handler, other_vars>>

NotAuthorized == "not authorized"

\* mutant: only the owner of the source account may post
post_transfer_owner_only(caller, id) ==
  post_transfer_apply(caller, id,
    IF id \in DOMAIN transfers
       /\ transfers[id].from_account_id \in DOMAIN accounts
       /\ accounts[transfers[id].from_account_id].user_id # caller
    THEN NotAuthorized
    ELSE post_transfer_outcome(id))

\* SELECT post_transfer(id) by any caller: SECURITY DEFINER, no use of auth.uid()
post_transfer(caller, id) ==
  post_transfer_apply(caller, id, post_transfer_outcome(id))

\* ------------------------------------------------------------ NextStore
NextStore ==
  \/ \E caller, owner \in Users : InsertAccountRow(caller, owner, "USD", "Main")
  \/ \E caller \in Callers, a, b \in AccountIds, m \in AmountRequests,
        c \in Currencies, st \in StatusInputs :
       InsertTransferRow(caller, a, b, m, c, st)
  \/ \E caller \in Callers, x \in TransferIds, st \in transfer_status :
       UpdateTransferRow(caller, x, st)
  \/ \E caller \in Callers, x \in TransferIds : post_transfer(caller, x)
  \/ TreasurySeed

SpecStore == Init /\ [][NextStore]_vars

\* =================================================================
\* The ways a transfer is created: table API, internal-transfer handler,
\* send_to_user
\* =================================================================
Anonymous == NULL                       \* a request without a signed-in user
AccountNames == {"Main", "Savings"}
Handles == Users \cup {"nobody"}

\* public.profiles: display_name -> user_id
profile_user_id(handle) == IF handle \in Users THEN handle ELSE NULL

\* SELECT ... FROM accounts under the caller's policies: the row, if visible
accounts_select(caller, id) ==
  id \in DOMAIN accounts /\ accounts_policy(caller, accounts[id].user_id)

\* responses of the internal-transfer handler
MissingAuthorization == "Missing authorization header"
MissingFields == "Missing required fields"
AmountNotPositive == "Amount must be greater than 0"
InvalidFromAccount == "Invalid from_account or not owned by user"
DestinationNotFound == "Destination account not found"
CurrencyMismatchAccounts == "Currency mismatch with accounts"

\* the handler up to its insert: the first response that ends the request,
\* or Ok when the transfer row is inserted
internal_transfer_response(caller, from, to, amount, currency) ==
  IF caller = Anonymous THEN MissingAuthorization
  ELSE IF amount = 0 THEN MissingFields                  \* !amount
  ELSE IF amount <= 0 THEN AmountNotPositive
  ELSE IF ~accounts_select(caller, from) THEN InvalidFromAccount
  ELSE IF ~accounts_select(caller, to) THEN DestinationNotFound
  ELSE IF accounts[from].currency # currency \/ accounts[to].currency # currency
  THEN CurrencyMismatchAccounts
  ELSE transfers_insert_response(caller, from, to, amount, caller)

\* the handler from the request to the insert of the transfer row
InternalTransferCreate(caller, from, to, amount, currency) ==
  LET response == internal_transfer_response(caller, from, to, amount, currency)
  IN /\ handler.pc = "idle"
     /\ response = Ok => FreeTransferIds # {}
     /\ IF response = Ok
        THEN /\ transfers' = Insert(transfers, Min(FreeTransferIds),
                                    transfer_row(from, to, amount, currency, caller))
             /\ handler' = [pc |-> "post", caller |-> caller,
                            id |-> Min(FreeTransferIds)]
             /\ UNCHANGED last
        ELSE /\ Served("internal_transfer", caller, response)
             /\ UNCHANGED <<transfers, handler>>
     /\ UNCHANGED <<accounts, ledger_entries, migrated, clock, call_vars,
                    other_vars>>

\* supabase.rpc('post_transfer', ...) and the handler's response
InternalTransferPost ==
  /\ handler.pc = "post"
  /\ post_transfer_writes(handler.id, post_transfer_outcome(handler.id))
  /\ Served("internal_transfer", handler.caller, post_transfer_outcome(handler.id))
  /\ handler' = NoRequest
  /\ UNCHANGED <<accounts, migrated, call_vars, other_vars>>

\* the handler stops between its insert and its call of post_transfer
InternalTransferDrop ==
  /\ handler.pc = "post"
  /\ handler' = NoRequest
  /\ UNCHANGED <<accounts, transfers, ledger_entries, migrated, clock,
                 call_vars, last, other_vars>>

\* ------------------------------------------------------- send_to_user
Unauthorized == "Unauthorized"
AmountMustBePositive == "Amount must be positive"
SourceNotOwned == "Source account not found or not owned by user"
CurrencyMismatchSource == "Currency mismatch"
RecipientNotFound == "Recipient not found"
RecipientNoAccount == "Recipient has no account in %"

\* SELECT currency ... WHERE a.id = _from_account AND a.user_id = caller
\* mutant: the source account is looked up without AND user_id = auth.uid()
src_currency_any_owner(caller, _from_account) ==
  IF _from_account \in DOMAIN accounts
  THEN accounts[_from_account].currency
  ELSE NULL

src_currency(caller, _from_account) ==
  IF _from_account \in DOMAIN accounts /\ accounts[_from_account].user_id = caller
  THEN accounts[_from_account].currency
  ELSE NULL

\* the recipient's account in the currency: the one named Main, else the
\* one created first; 0 when there is none
dest_account(recipient_id, _currency) ==
  LET main == {a \in DOMAIN accounts : /\ accounts[a].user_id = recipient_id
                                       /\ accounts[a].currency = _currency
                                       /\ accounts[a].name = "Main"}
      any == {a \in DOMAIN accounts : /\ accounts[a].user_id = recipient_id
                                      /\ accounts[a].currency = _currency}
  IN IF main # {} THEN Min(main)
     ELSE IF any # {} THEN Min(any)
     ELSE 0

\* what send_to_user returns: the first exception raised, or Ok
send_to_user_response(caller, _from_account, _recipient_handle, _amount, _currency) ==
  LET recipient_id == profile_user_id(_recipient_handle)
      dest == dest_account(recipient_id, _currency)
  IN IF caller = Anonymous THEN Unauthorized
     ELSE IF _amount <= 0 THEN AmountMustBePositive
     ELSE IF src_currency(caller, _from_account) = NULL THEN SourceNotOwned
     ELSE IF src_currency(caller, _from_account) # _currency THEN CurrencyMismatchSource
     ELSE IF recipient_id = NULL THEN RecipientNotFound
     ELSE IF dest = 0 THEN RecipientNoAccount
     ELSE IF ~transfers_accounts_distinct(_from_account, dest) THEN SameAccount
     ELSE IF ~transfers_positive_amount(_amount) THEN InvalidAmount
     ELSE post_transfer_checks(TRUE,
            transfer_row(_from_account, dest, _amount, _currency, caller),
            CurrencyOf(_from_account), CurrencyOf(dest), _currency)

\* mutant: the insert is committed on its own and the transfer is not posted
send_to_user_insert_only(caller, _from_account, _recipient_handle, _amount, _currency) ==
  LET response == send_to_user_response(caller, _from_account,
                                        _recipient_handle, _amount, _currency)
      dest == dest_account(profile_user_id(_recipient_handle), _currency)
      row == transfer_row(_from_account, dest, _amount, _currency, caller)
  IN /\ response = Ok => FreeTransferIds # {}
     /\ transfers' = IF response = Ok
                     THEN Insert(transfers, Min(FreeTransferIds), row)
                     ELSE transfers
     /\ Served("send_to_user", caller, response)
     /\ UNCHANGED <<accounts, ledger_entries, migrated, clock, call_vars,
                    handler, other_vars>>

\* SELECT send_to_user(...): one function call, hence one transaction; the
\* insert of the transfer and its posting are committed together or not at all
send_to_user(caller, _from_account, _recipient_handle, _amount, _currency) ==
  LET response == send_to_user_response(caller, _from_account,
                                        _recipient_handle, _amount, _currency)
      dest == dest_account(profile_user_id(_recipient_handle), _currency)
      transfer_id == Min(FreeTransferIds)
      row == transfer_row(_from_account, dest, _amount, _currency, caller)
  IN /\ response = Ok => (FreeTransferIds # {} /\ clock < MaxClock)
     /\ IF response = Ok
        THEN /\ clock' = clock + 1
             /\ transfers' = Insert(transfers, transfer_id, posted_row(row, clock + 1))
             /\ ledger_entries' = ledger_entries \o
                  <<debit_entry(transfer_id, row), credit_entry(transfer_id, row)>>
        ELSE UNCHANGED <<clock, transfers, ledger_entries>>
     /\ Served("send_to_user", caller, response)
     /\ UNCHANGED <<accounts, migrated, call_vars, handler, other_vars>>

\* ----------------------------------------------------------- NextCreate
NextCreate ==
  \/ \E u \in Users, n \in AccountNames : InsertAccountRow(u, u, "USD", n)
  \/ \E caller \in Users, a, b \in AccountIds, m \in AmountRequests,
        c \in Currencies, st \in StatusInputs :
       InsertTransferRow(caller, a, b, m, c, st)
  \/ \E caller \in Users \cup {Anonymous}, a, b \in AccountIds,
        m \in AmountRequests, c \in Currencies :
       InternalTransferCreate(caller, a, b, m, c)
  \/ InternalTransferPost
  \/ InternalTransferDrop
  \/ \E caller \in Users \cup {Anonymous}, a \in AccountIds, h \in Handles,
        m \in AmountRequests, c \in Currencies :
       send_to_user(caller, a, h, m, c)
  \/ \E caller \in Users, x \in TransferIds : post_transfer(caller, x)

SpecCreate == Init /\ [][NextCreate]_vars

\* =================================================================
\* The ledger and the rows it hangs on: who writes entries, who removes
\* them, and what deleting an account or a transfer does to them
\* =================================================================
MaxLedger == 3
testAmount == 50  \* const testAmount = 50.00
LedgerAmounts == {testAmount}
entry_type == {"debit", "credit"}

\* ------------------------------------------------ ledger_entries, by row
\* WITH CHECK (false) of "No user inserts ledger", the only INSERT policy
ledger_insert_policy(caller) == FALSE

\* ledger_entries has policies FOR SELECT and FOR INSERT only: an UPDATE or
\* a DELETE of a user or an admin sees no row
ledger_modify_policy(caller) == FALSE

\* INSERT INTO ledger_entries through the table API
InsertLedgerRow(caller, account_id, type, amount) ==
  LET response == IF ~ledger_insert_policy(caller) THEN RlsViolation
                  ELSE IF account_id \notin DOMAIN accounts THEN FkViolation
                  ELSE Ok
  IN /\ ledger_entries' =
          IF response = Ok
          THEN Append(ledger_entries,
                      ledger_row(account_id, NullRef, type, amount, "USD"))
          ELSE ledger_entries
     /\ Served("insert_ledger", caller, response)
     /\ UNCHANGED <<accounts, transfers, migrated, clock, call_vars, handler,
                    other_vars>>

\* UPDATE ledger_entries SET amount = ... of one row through the table API
UpdateLedgerRow(caller, i, amount) ==
  /\ ledger_entries' =
       IF i \in Indices(ledger_entries) /\ ledger_modify_policy(caller)
       THEN [ledger_entries EXCEPT ![i].amount = amount]
       ELSE ledger_entries
  /\ Served("update_ledger", caller, Ok)
  /\ UNCHANGED <<accounts, transfers, migrated, clock, call_vars, handler,
                 other_vars>>

\* the ledger without the entry at position i
WithoutEntry(i) ==
  [j \in 1..(Len(ledger_entries) - 1) |->
     IF j < i THEN ledger_entries[j] ELSE ledger_entries[j + 1]]

\* DELETE FROM ledger_entries of one row through the table API
DeleteLedgerRow(caller, i) ==
  /\ ledger_entries' =
       IF i \in Indices(ledger_entries) /\ ledger_modify_policy(caller)
       THEN WithoutEntry(i)
       ELSE ledger_entries
  /\ Served("delete_ledger", caller, Ok)
  /\ UNCHANGED <<accounts, transfers, migrated, clock, call_vars, handler,
                 other_vars>>

\* ------------------------------------------------- test-balance-fix.js
\* run with the service role key, which no policy restricts

\* the USD accounts of a user; the script takes the one created last
usd_accounts(user_id) ==
  {a \in DOMAIN accounts : accounts[a].user_id = user_id
                          /\ accounts[a].currency = "USD"}

\* steps 1 to 4: a user with a profile, that user's USD account, and a
\* credit of testAmount on it (without such an account the script throws)
TestBalanceCredit(user_id, a) ==
  /\ script.pc = "idle"
  /\ a \in usd_accounts(user_id)
  /\ Len(ledger_entries) < MaxLedger
  /\ ledger_entries' = Append(ledger_entries,
                              ledger_row(a, NullRef, "credit", testAmount, "USD"))
  /\ script' = [pc |-> "cleanup", account |-> a]
  /\ UNCHANGED <<accounts, transfers, migrated, clock, call_vars, last,
                 handler, creating, deleted, rest_vars>>

\* the rows that step 7 deletes: .eq(account_id).eq(amount).eq(type)
cleanup_matches(e) ==
  e.account_id = script.account /\ e.amount = testAmount /\ e.type = "credit"

\* step 7: delete().eq('account_id', ...).eq('amount', testAmount).eq('type', 'credit')
TestBalanceCleanup ==
  /\ script.pc = "cleanup"
  /\ ledger_entries' = SelectSeq(ledger_entries, LAMBDA e : ~cleanup_matches(e))
  /\ script' = NoScript
  /\ UNCHANGED <<accounts, transfers, migrated, clock, call_vars, last,
                 handler, creating, deleted, rest_vars>>

\* step 5 throws (the balance query fails): the script exits before step 7
TestBalanceExit ==
  /\ script.pc = "cleanup"
  /\ script' = NoScript
  /\ UNCHANGED <<accounts, transfers, ledger_entries, migrated, clock,
                 call_vars, last, handler, creating, deleted, rest_vars>>

\* ------------------------------------------------- deleting an account
\* transfers.from_account_id / to_account_id ... ON DELETE RESTRICT
accounts_restricted(ids) ==
  \E x \in DOMAIN transfers : transfers[x].from_account_id \in ids
                             \/ transfers[x].to_account_id \in ids

\* ledger_entries.account_id ... ON DELETE CASCADE
account_id_cascade(ids) ==
  SelectSeq(ledger_entries, LAMBDA e : e.account_id \notin ids)

\* the accounts deleted by a DELETE of these rows, and its response
DeleteAccounts(ids, op, caller) ==
  LET response == IF accounts_restricted(ids) THEN FkViolation ELSE Ok
  IN /\ accounts' = IF response = Ok
                    THEN [a \in DOMAIN accounts \ ids |-> accounts[a]]
                    ELSE accounts
     /\ ledger_entries' = IF response = Ok THEN account_id_cascade(ids)
                          ELSE ledger_entries
     /\ deleted' = IF response = Ok
                   THEN [deleted EXCEPT !.accounts = @ \cup (ids \cap DOMAIN accounts)]
                   ELSE deleted
     /\ Served(op, caller, response)
     /\ UNCHANGED <<transfers, migrated, clock, call_vars, handler, script,
                    creating, rest_vars>>

\* DELETE FROM accounts WHERE id = ... through the table API: the row is
\* deleted when USING of "Users own accounts" or of "Admins can manage all
\* accounts" shows it to the caller
DeleteAccountRow(caller, id) ==
  DeleteAccounts(IF id \in DOMAIN accounts
                    /\ accounts_policy(caller, accounts[id].user_id)
                 THEN {id} ELSE {},
                 "delete_account", caller)

\* deleting the auth.users row: accounts.user_id ... ON DELETE CASCADE
DeleteUser(user_id) ==
  DeleteAccounts({a \in DOMAIN accounts : accounts[a].user_id = user_id},
                 "delete_user", user_id)

\* ----------------------------------------------------------- NextLedger
NextLedger ==
  \/ \E u \in Users : InsertAccountRow(u, u, "USD", "Main")
  \/ TreasurySeed
  \/ \E caller \in Users, a, b \in AccountIds, m \in LedgerAmounts :
       InsertTransferRow(caller, a, b, m, "USD", "pending")
  \/ \E caller \in Users, x \in TransferIds : post_transfer(caller, x)
  \/ \E caller \in Callers, a \in AccountIds, ty \in entry_type :
       InsertLedgerRow(caller, a, ty, 1)
  \/ \E caller \in Callers, i \in 1..MaxLedger : UpdateLedgerRow(caller, i, 1)
  \/ \E caller \in Callers, i \in 1..MaxLedger : DeleteLedgerRow(caller, i)
  \/ \E u \in Users, a \in AccountIds : TestBalanceCredit(u, a)
  \/ TestBalanceCleanup
  \/ TestBalanceExit
  \/ \E caller \in Callers, x \in TransferIds : DeleteTransferRow(caller, x)
  \/ \E caller \in Callers \cup {platform_user_id}, a \in AccountIds :
       DeleteAccountRow(caller, a)
  \/ \E u \in Users \cup {platform_user_id} : DeleteUser(u)

SpecLedger == Init /\ [][NextLedger]_vars

\* =================================================================
\* Accounts: the ways an account row is created or renamed
\* =================================================================
Tabs == {"tab1", "tab2"}  \* pages open at the same time

AlreadyExists == "Account exists"

\* .from('accounts').select('id').limit(1): the caller's policies show a row
accounts_visible(caller) ==
  \E a \in DOMAIN accounts : accounts_policy(caller, accounts[a].user_id)

\* createDefaultAccount up to its insert: the page returns when the select
\* shows an account, and goes on to the insert when it shows none
CreateDefaultSelect(tab, caller) ==
  /\ \A u \in Users : <<tab, u>> \notin creating
  /\ IF accounts_visible(caller)
     THEN /\ Served("create_default_account", caller, AlreadyExists)
          /\ UNCHANGED creating
     ELSE /\ creating' = creating \cup {<<tab, caller>>}
          /\ UNCHANGED last
  /\ UNCHANGED <<accounts, transfers, ledger_entries, migrated, clock,
                 call_vars, handler, script, deleted, rest_vars>>

\* createDefaultAccount's insert of a USD wallet named Main, and its toast
CreateDefaultInsert(tab, caller) ==
  LET row == account_row(caller, "USD", "Main")
      response == accounts_insert_response(caller, row)
  IN /\ <<tab, caller>> \in creating
     /\ response = Ok => FreeAccountIds # {}
     /\ accounts' = IF response = Ok
                    THEN Insert(accounts, Min(FreeAccountIds), row)
                    ELSE accounts
     /\ creating' = creating \ {<<tab, caller>>}
     /\ Served("create_default_account", caller, response)
     /\ UNCHANGED <<transfers, ledger_entries, migrated, clock, call_vars,
                    handler, script, deleted, rest_vars>>

\* saveEdit: UPDATE accounts SET name = ... WHERE id = ...; a row the
\* policies hide from the caller is not updated and no error is raised
saveEdit(caller, editingId, editingName) ==
  LET visible == editingId \in DOMAIN accounts
                 /\ accounts_policy(caller, accounts[editingId].user_id)
      accs == IF visible THEN [accounts EXCEPT ![editingId].name = editingName]
              ELSE accounts
      response == IF accounts_user_type_currency_name_uidx(accs) THEN Ok
                  ELSE DuplicateAccount
  IN /\ accounts' = IF response = Ok THEN accs ELSE accounts
     /\ Served("save_edit", caller, response)
     /\ UNCHANGED <<transfers, ledger_entries, migrated, clock, call_vars,
                    handler, other_vars>>

\* ---------------------------------------------------------- NextAccounts
NextAccounts ==
  \/ \E caller, owner \in Users, n \in AccountNames :
       InsertAccountRow(caller, owner, "USD", n)
  \/ \E tab \in Tabs, u \in Users : CreateDefaultSelect(tab, u)
  \/ \E tab \in Tabs, u \in Users : CreateDefaultInsert(tab, u)
  \/ \E caller \in Users, a \in AccountIds, n \in AccountNames :
       saveEdit(caller, a, n)
  \/ \E caller \in Users, a \in AccountIds : DeleteAccountRow(caller, a)
  \/ TreasurySeed

SpecAccounts == Init /\ [][NextAccounts]_vars

\* =================================================================
\* post_transfer on a store with missing rows: the SELECTs of the two
\* account currencies find no row
\* =================================================================
\* the account tables over the first two ids, the unique index respected
AccountTables ==
  {accs \in UNION {[S -> {account_row(u, c, "Main") : u \in Users, c \in Currencies}] :
                     S \in SUBSET {1, 2}} :
     accounts_user_type_currency_name_uidx(accs)}

\* one transfer from account 1 to account 2, whether those rows exist or not
TransferTables ==
  {[x \in {1} |-> [transfer_row(1, 2, 1, c, "u1") EXCEPT !.status = st]] :
     c \in Currencies, st \in transfer_status}

InitMissing ==
  /\ accounts \in AccountTables
  /\ transfers \in TransferTables
  /\ ledger_entries = <<>>
  /\ migrated = FALSE
  /\ clock = 0
  /\ lock = [x \in TransferIds |-> NULL]
  /\ pc = [s \in Sessions |-> "idle"]
  /\ _transfer_id = [s \in Sessions |-> 1]
  /\ t = [s \in Sessions |-> NoRow]
  /\ from_currency = [s \in Sessions |-> NULL]
  /\ to_currency = [s \in Sessions |-> NULL]
  /\ txn_start = [s \in Sessions |-> 0]
  /\ tx_entries = [s \in Sessions |-> <<>>]
  /\ tx_update = [s \in Sessions |-> FALSE]
  /\ waited = [s \in Sessions |-> FALSE]
  /\ interrupted_at = [s \in Sessions |-> "none"]
  /\ result = [s \in Sessions |-> NoResult]
  /\ probe = NoProbe
  /\ last = NoLast
  /\ handler = NoRequest
  /\ script = NoScript
  /\ creating = {}
  /\ deleted = NoneDeleted
  /\ seen = NoRead
  /\ transactions = <<>>
  /\ webhook = NoWebhook

NextMissing ==
  \E caller \in Callers, x \in DOMAIN transfers : post_transfer(caller, x)

SpecMissing == InitMissing /\ [][NextMissing]_vars

\* =================================================================
\* Two calls of post_transfer at the same time, on the same or on two
\* different pending transfers, over four accounts
\* =================================================================
PairAccounts == 1..4
PairTransfers == {1, 2}

\* four USD accounts, two of each user
PairAccountTable ==
  [a \in PairAccounts |->
     account_row(IF a <= 2 THEN "u1" ELSE "u2", "USD",
                 IF a \in {1, 3} THEN "Main" ELSE "Savings")]

\* two pending USD transfers between any accounts: over two disjoint pairs,
\* with one account in common, or over the same pair
PairTransferTables ==
  {[x \in PairTransfers |->
      transfer_row(IF x = 1 THEN a1 ELSE a2, IF x = 1 THEN b1 ELSE b2, 1, "USD",
                   PairAccountTable[IF x = 1 THEN a1 ELSE a2].user_id)] :
     a1 \in PairAccounts, b1 \in PairAccounts, a2 \in PairAccounts,
     b2 \in PairAccounts}

InitPair ==
  /\ accounts = PairAccountTable
  /\ transfers \in {tt \in PairTransferTables :
                      \A x \in PairTransfers :
                        transfers_accounts_distinct(tt[x].from_account_id,
                                                    tt[x].to_account_id)}
  /\ ledger_entries = <<>>
  /\ migrated = FALSE
  /\ clock = 0
  /\ lock = [x \in PairTransfers |-> NULL]
  /\ pc = [s \in Sessions |-> "idle"]
  /\ _transfer_id = [s \in Sessions |-> 1]
  /\ t = [s \in Sessions |-> NoRow]
  /\ from_currency = [s \in Sessions |-> NULL]
  /\ to_currency = [s \in Sessions |-> NULL]
  /\ txn_start = [s \in Sessions |-> 0]
  /\ tx_entries = [s \in Sessions |-> <<>>]
  /\ tx_update = [s \in Sessions |-> FALSE]
  /\ waited = [s \in Sessions |-> FALSE]
  /\ interrupted_at = [s \in Sessions |-> "none"]
  /\ result = [s \in Sessions |-> NoResult]
  /\ probe = NoProbe
  /\ last = NoLast
  /\ handler = NoRequest
  /\ script = NoScript
  /\ creating = {}
  /\ deleted = NoneDeleted
  /\ seen = NoRead
  /\ transactions = <<>>
  /\ webhook = NoWebhook

\* each session makes one call, for either transfer
NextPair ==
  \/ \E s \in Sessions, x \in PairTransfers :
       txn_start[s] = 0 /\ PostTransferCall(s, x)
  \/ \E s \in Sessions : WaitForLock(s)
  \/ \E s \in Sessions : SelectTransferForUpdate(s)
  \/ \E s \in Sessions : SelectFromCurrency(s)
  \/ \E s \in Sessions : SelectToCurrency(s)
  \/ \E s \in Sessions : InsertDebit(s)
  \/ \E s \in Sessions : InsertCredit(s)
  \/ \E s \in Sessions : UpdateTransfer(s)
  \/ \E s \in Sessions : Commit(s)

SpecPair == InitPair /\ [][NextPair]_vars

\* ------------------------------------------------------------------
\* Reads of the balance views beside the posts (SpecRead)
\* ------------------------------------------------------------------
\* mutant: the statement also sees the rows of the open transactions
read_uncommitted == ledger_entries \o tx_entries["s1"] \o tx_entries["s2"]

\* READ COMMITTED: a statement sees the rows committed before it began
read_committed == ledger_entries

\* SUM(CASE WHEN le.type = ... THEN le.amount ELSE 0 END) over the rows
\* of one account
CaseSumOver(ledger, account_id, type) ==
  SumSeq([i \in Indices(ledger) |->
            IF ledger[i].account_id = account_id /\ ledger[i].type = type
            THEN ledger[i].amount ELSE 0])

\* the rows of the view account_balances over the given ledger rows: one
\* row for each account, its balance the credits minus the debits
account_balances(ledger) ==
  [a \in DOMAIN accounts |->
     [user_id |-> accounts[a].user_id,
      currency |-> accounts[a].currency,
      balance |-> CaseSumOver(ledger, a, "credit")
                  - CaseSumOver(ledger, a, "debit")]]

\* SELECT ... FROM accounts_with_balance: one statement, which takes no
\* row lock and waits for none
SelectAccountsWithBalance ==
  /\ seen' = [rows |-> account_balances(read_committed),
              in_flight |-> {s \in Sessions : tx_entries[s] # <<>>}]
  /\ UNCHANGED <<store, migrated, clock, call_vars, last, handler, script,
                 creating, deleted, transactions, webhook>>

NextRead ==
  \/ NextPair
  \/ SelectAccountsWithBalance

SpecRead == InitPair /\ [][NextRead]_vars

\* ------------------------------------------------------------------
\* The calls of post_transfer under fair scheduling (SpecFair)
\* ------------------------------------------------------------------
\* the next statement of the call of session s
PostTransferStep(s) ==
  \/ WaitForLock(s)
  \/ SelectTransferForUpdate(s)
  \/ SelectFromCurrency(s)
  \/ SelectToCurrency(s)
  \/ InsertDebit(s)
  \/ InsertCredit(s)
  \/ UpdateTransfer(s)
  \/ Commit(s)

\* the server runs each call that can take a step
SpecFair == SpecPair /\ \A s \in Sessions : WF_vars(PostTransferStep(s))

\* =================================================================
\* The Stripe webhook (stripe-webhook-fixed.ts)
\* =================================================================
\* the event Stripe delivers, once or more: one payment intent
payment_intent_id == "pi_1"
sellerAmount == 1

PaymentSucceeded ==
  [type |-> "payment_intent.succeeded", metadata |-> TRUE, seller_account |-> "u1"]

Events ==
  {PaymentSucceeded,
   [PaymentSucceeded EXCEPT !.type = "payment_intent.created"],
   [PaymentSucceeded EXCEPT !.metadata = FALSE],
   [PaymentSucceeded EXCEPT !.seller_account = "nobody"]}

\* the seller of the event, from public.profiles
seller_user_id == profile_user_id(webhook.event.seller_account)

\* mutant: the column is not unique
transactions_stripe_payment_intent_id_any(rows) == TRUE

\* stripe_payment_intent_id TEXT UNIQUE NOT NULL
transactions_stripe_payment_intent_id_key(rows) ==
  \A i, j \in Indices(rows) :
    (i # j) => rows[i].stripe_payment_intent_id # rows[j].stripe_payment_intent_id

transaction_row(id, seller, amount) ==
  [stripe_payment_intent_id |-> id, seller_user_id |-> seller,
   seller_amount |-> amount, status |-> "completed"]

\* return new Response(body, { status }): the delivery is over
Responded(w, d, status, body) ==
  [w EXCEPT !.delivery[d] =
              [NoDelivery EXCEPT !.response = [status |-> status, body |-> body]],
            !.acked = @ \/ status = 200]

\* the delivery goes on with its next request
Continue(w, d, next) == [w EXCEPT !.delivery[d].pc = next]

webhook_unchanged ==
  UNCHANGED <<migrated, call_vars, last, handler, script, creating, deleted, seen>>

\* the USD accounts of a user with the given name
usd_accounts_named(user_id, name) ==
  {a \in DOMAIN accounts : /\ accounts[a].user_id = user_id
                           /\ accounts[a].currency = "USD"
                           /\ accounts[a].name = name}

\* where the handler goes once it has the seller's account
credit_step == IF webhook.platformUserId # NULL THEN "insert_transfer"
               ELSE "insert_credit"

\* Stripe sends the event: the handler parses it, reads the metadata and
\* looks the seller up
WebhookDeliver(d) ==
  /\ webhook.delivery[d].pc = "idle"
  /\ Len(transactions) < MaxTransactions
  /\ webhook' =
       IF webhook.event.type # "payment_intent.succeeded"
       THEN Responded(webhook, d, 200, "Event not handled")
       ELSE IF ~webhook.event.metadata
       THEN Responded(webhook, d, 400, "Missing metadata")
       ELSE IF seller_user_id = NULL
       THEN Responded(webhook, d, 400, "Seller not found")
       ELSE [webhook EXCEPT !.delivery[d] =
                              [NoDelivery EXCEPT !.pc = "insert_transaction"]]
  /\ UNCHANGED <<store, clock, transactions>>
  /\ webhook_unchanged

\* supabase.from('transactions').insert(...)
WebhookInsertTransaction(d) ==
  /\ webhook.delivery[d].pc = "insert_transaction"
  /\ LET rows == Append(transactions,
                        transaction_row(payment_intent_id, seller_user_id,
                                        sellerAmount))
     IN IF transactions_stripe_payment_intent_id_key(rows)
        THEN /\ transactions' = rows
             /\ webhook' = Continue(webhook, d,
                                    IF webhook.platformUserId # NULL
                                    THEN "select_platform"
                                    ELSE "select_seller_main")
        ELSE /\ webhook' = Responded(webhook, d, 500, "Database error")
             /\ UNCHANGED transactions
  /\ UNCHANGED <<store, clock>>
  /\ webhook_unchanged

\* select the platform's Treasury account in USD
WebhookSelectPlatform(d) ==
  /\ webhook.delivery[d].pc = "select_platform"
  /\ LET found == usd_accounts_named(webhook.platformUserId, "Treasury") IN
       webhook' =
         IF Cardinality(found) = 1
         THEN [webhook EXCEPT !.delivery[d].platformAccountId =
                                 CHOOSE a \in found : TRUE,
                              !.delivery[d].pc = "select_seller_main"]
         ELSE Continue(webhook, d, "insert_platform")
  /\ UNCHANGED <<store, clock, transactions>>
  /\ webhook_unchanged

\* insert the Treasury account when the select returned none
WebhookInsertPlatform(d) ==
  /\ webhook.delivery[d].pc = "insert_platform"
  /\ FreeAccountIds # {}
  /\ LET id == Min(FreeAccountIds)
         accs == Insert(accounts, id,
                        account_row(webhook.platformUserId, "USD", "Treasury"))
     IN IF accounts_user_type_currency_name_uidx(accs)
        THEN /\ accounts' = accs
             /\ webhook' = [webhook EXCEPT !.delivery[d].platformAccountId = id,
                                           !.delivery[d].pc = "select_seller_main"]
        ELSE /\ webhook' = Responded(webhook, d, 500, "Internal setup error")
             /\ UNCHANGED accounts
  /\ UNCHANGED <<transfers, ledger_entries, clock, transactions>>
  /\ webhook_unchanged

\* select the seller's USD account named Main
WebhookSelectSellerMain(d) ==
  /\ webhook.delivery[d].pc = "select_seller_main"
  /\ LET found == usd_accounts_named(seller_user_id, "Main") IN
       webhook' =
         IF Cardinality(found) = 1
         THEN [webhook EXCEPT !.delivery[d].sellerAccountId =
                                 CHOOSE a \in found : TRUE,
                              !.delivery[d].pc = credit_step]
         ELSE Continue(webhook, d, "select_seller_any")
  /\ UNCHANGED <<store, clock, transactions>>
  /\ webhook_unchanged

\* else the first USD account of the seller (limit 1)
WebhookSelectSellerAny(d) ==
  /\ webhook.delivery[d].pc = "select_seller_any"
  /\ LET found == {a \in DOMAIN accounts : /\ accounts[a].user_id = seller_user_id
                                           /\ accounts[a].currency = "USD"}
     IN IF found = {}
        THEN webhook' = Continue(webhook, d, "insert_seller")
        ELSE \E a \in found :
               webhook' = [webhook EXCEPT !.delivery[d].sellerAccountId = a,
                                          !.delivery[d].pc = credit_step]
  /\ UNCHANGED <<store, clock, transactions>>
  /\ webhook_unchanged

\* insert a Main USD account for the seller when there is none
WebhookInsertSeller(d) ==
  /\ webhook.delivery[d].pc = "insert_seller"
  /\ FreeAccountIds # {}
  /\ LET id == Min(FreeAccountIds)
         accs == Insert(accounts, id, account_row(seller_user_id, "USD", "Main"))
     IN IF accounts_user_type_currency_name_uidx(accs)
        THEN /\ accounts' = accs
             /\ webhook' = [webhook EXCEPT !.delivery[d].sellerAccountId = id,
                                           !.delivery[d].pc = credit_step]
        ELSE /\ webhook' = Responded(webhook, d, 500, "Internal setup error")
             /\ UNCHANGED accounts
  /\ UNCHANGED <<transfers, ledger_entries, clock, transactions>>
  /\ webhook_unchanged

\* insert the transfer from the Treasury account to the seller's account
WebhookInsertTransfer(d) ==
  /\ webhook.delivery[d].pc = "insert_transfer"
  /\ FreeTransferIds # {}
  /\ LET from == webhook.delivery[d].platformAccountId
         to == webhook.delivery[d].sellerAccountId
         id == Min(FreeTransferIds)
     IN IF /\ transfers_accounts_distinct(from, to)
           /\ transfers_positive_amount(sellerAmount)
           /\ {from, to} \subseteq DOMAIN accounts
        THEN /\ transfers' = Insert(transfers, id,
                                    transfer_row(from, to, sellerAmount, "USD",
                                                 webhook.platformUserId))
             /\ webhook' = [webhook EXCEPT !.delivery[d].createdTransfer = id,
                                           !.delivery[d].pc = "post_transfer"]
        ELSE /\ webhook' = Responded(webhook, d, 500, "Internal credit error")
             /\ UNCHANGED transfers
  /\ UNCHANGED <<accounts, ledger_entries, clock, transactions>>
  /\ webhook_unchanged

\* supabase.rpc('post_transfer', { _transfer_id: createdTransfer.id })
WebhookPostTransfer(d) ==
  /\ webhook.delivery[d].pc = "post_transfer"
  /\ LET id == webhook.delivery[d].createdTransfer
         outcome == post_transfer_outcome(id)
     IN /\ post_transfer_writes(id, outcome)
        /\ webhook' = IF outcome = Ok
                      THEN Responded(webhook, d, 200, "Webhook processed")
                      ELSE Responded(webhook, d, 500, "Internal credit post error")
  /\ UNCHANGED <<accounts, transactions>>
  /\ webhook_unchanged

\* PLATFORM_USER_ID is not set: insert a credit on the seller's account
WebhookInsertCredit(d) ==
  /\ webhook.delivery[d].pc = "insert_credit"
  /\ IF webhook.delivery[d].sellerAccountId \in DOMAIN accounts
     THEN /\ ledger_entries' =
               Append(ledger_entries,
                      ledger_row(webhook.delivery[d].sellerAccountId, NullRef,
                                 "credit", sellerAmount, "USD"))
          /\ webhook' = Responded(webhook, d, 200, "Webhook processed")
     ELSE /\ webhook' = Responded(webhook, d, 500, "Internal credit error")
          /\ UNCHANGED ledger_entries
  /\ UNCHANGED <<accounts, transfers, clock, transactions>>
  /\ webhook_unchanged

\* the error response of each write of the handler
error_response(at) ==
  CASE at = "insert_transaction" -> "Database error"
    [] at \in {"insert_platform", "insert_seller"} -> "Internal setup error"
    [] at \in {"insert_transfer", "insert_credit"} -> "Internal credit error"
    [] at = "post_transfer" -> "Internal credit post error"

\* a write of the handler returns an error for a passing cause (the
\* database cannot be reached, the statement times out): nothing is written
WebhookRequestFails(d) ==
  /\ webhook.delivery[d].pc \in {"insert_transaction", "insert_platform",
                                 "insert_seller", "insert_transfer",
                                 "post_transfer", "insert_credit"}
  /\ webhook.failed < MaxFailures
  /\ webhook' = [Responded(webhook, d, 500,
                           error_response(webhook.delivery[d].pc))
                   EXCEPT !.failed = @ + 1]
  /\ UNCHANGED <<store, clock, transactions>>
  /\ webhook_unchanged

\* the next request of a delivery
WebhookStep(d) ==
  \/ WebhookInsertTransaction(d)
  \/ WebhookSelectPlatform(d)
  \/ WebhookInsertPlatform(d)
  \/ WebhookSelectSellerMain(d)
  \/ WebhookSelectSellerAny(d)
  \/ WebhookInsertSeller(d)
  \/ WebhookInsertTransfer(d)
  \/ WebhookPostTransfer(d)
  \/ WebhookInsertCredit(d)

\* the seller has no USD account, a Main one, or a Savings one; the
\* Treasury account exists or not; another user has an account
WebhookAccountTables ==
  {<<>>,
   <<account_row("u2", "USD", "Main")>>,
   <<account_row("u1", "USD", "Main")>>,
   <<account_row("u1", "USD", "Savings")>>,
   <<account_row(platform_user_id, "USD", "Treasury")>>,
   <<account_row(platform_user_id, "USD", "Treasury"),
     account_row("u1", "USD", "Main")>>}

InitWebhook ==
  /\ accounts \in WebhookAccountTables
  /\ transfers = <<>>
  /\ ledger_entries = <<>>
  /\ migrated = FALSE
  /\ clock = 0
  /\ lock = [x \in TransferIds |-> NULL]
  /\ pc = [s \in Sessions |-> "idle"]
  /\ _transfer_id = [s \in Sessions |-> 1]
  /\ t = [s \in Sessions |-> NoRow]
  /\ from_currency = [s \in Sessions |-> NULL]
  /\ to_currency = [s \in Sessions |-> NULL]
  /\ txn_start = [s \in Sessions |-> 0]
  /\ tx_entries = [s \in Sessions |-> <<>>]
  /\ tx_update = [s \in Sessions |-> FALSE]
  /\ waited = [s \in Sessions |-> FALSE]
  /\ interrupted_at = [s \in Sessions |-> "none"]
  /\ result = [s \in Sessions |-> NoResult]
  /\ probe = NoProbe
  /\ last = NoLast
  /\ handler = NoRequest
  /\ script = NoScript
  /\ creating = {}
  /\ deleted = NoneDeleted
  /\ seen = NoRead
  /\ transactions = <<>>
  /\ webhook \in {[NoWebhook EXCEPT !.event = e, !.platformUserId = p] :
                    e \in Events, p \in {platform_user_id, NULL}}

NextWebhook ==
  \/ \E d \in Deliveries : WebhookDeliver(d)
  \/ \E d \in Deliveries : WebhookStep(d)
  \/ \E d \in Deliveries : WebhookRequestFails(d)

SpecWebhook == InitWebhook /\ [][NextWebhook]_vars

\* Stripe sends the event again as long as no delivery was answered 200
StripeRetry == ~webhook.acked /\ \E d \in Deliveries : WebhookDeliver(d)

\* the handler runs each delivery to its response, and Stripe retries
SpecWebhookFair ==
  /\ SpecWebhook
  /\ \A d \in Deliveries : WF_vars(WebhookStep(d))
  /\ WF_vars(StripeRetry)

\* =================================================================
\* Properties
\* =================================================================
PastLock == {"select_from", "select_to", "insert_debit", "insert_credit",
             "update_transfer", "commit"}
Validated == {"insert_debit", "insert_credit", "update_transfer", "commit"}
ValidationErrors == {NotFound, InvalidState, InvalidAccount, CurrencyMismatch}

\* the committed entries that reference transfer x
EntriesOf(x) == SelectSeq(ledger_entries, LAMBDA e : e.transfer_id = Ref(x))
TypesOf(x) == [i \in Indices(EntriesOf(x)) |-> EntriesOf(x)[i].type]

\* the call of session s returns in this step
Returns(s) == pc[s] # "idle" /\ pc'[s] = "idle"
\* ... by committing
Succeeds(s) == Returns(s) /\ result'[s] = Ok
\* ... by raising one of the validation errors
FailsValidation(s) == Returns(s) /\ result'[s] \in ValidationErrors

\* entries appended to the committed ledger by this step
Appended == SubSeq(ledger_entries', Len(ledger_entries) + 1, Len(ledger_entries'))
AppendOnly ==
  /\ Len(ledger_entries') >= Len(ledger_entries)
  /\ SubSeq(ledger_entries', 1, Len(ledger_entries)) = ledger_entries

\* ---- C1 ---------------------------------------------------------
\* sum over all entries in currency c, credits positive and debits negative
SignedSum(c) ==
  SumSeq([i \in Indices(ledger_entries) |->
            IF ledger_entries[i].currency # c THEN 0
            ELSE IF ledger_entries[i].type = "credit"
                 THEN ledger_entries[i].amount
                 ELSE 0 - ledger_entries[i].amount])

\* C1 (as claimed): zero-sum invariant - in every reachable state and for
\* every currency the signed sum of all ledger entries in that currency is
\* zero.
C1_ZeroSum == \A c \in Currencies : SignedSum(c) = 0

\* ---- C2 ---------------------------------------------------------
\* C2: two callers posting the same pending transfer concurrently are
\* serialized by the row lock: at most one of them is past the SELECT ... FOR
\* UPDATE at a time, the last calls of two sessions on one transfer never
\* both succeed, a call that waited for the lock and finds the transfer
\* posted fails with the not-pending error without writing, and a transfer
\* has either no ledger entries or exactly one debit followed by one credit.
C2_ConcurrentPostSerialized ==
  /\ [](\A s1, s2 \in Sessions :
          (s1 # s2 /\ _transfer_id[s1] = _transfer_id[s2]) =>
            /\ ~(pc[s1] \in PastLock /\ pc[s2] \in PastLock)
            /\ ~(pc[s1] = "idle" /\ pc[s2] = "idle"
                 /\ result[s1] = Ok /\ result[s2] = Ok))
  /\ [](\A x \in TransferIds :
          TypesOf(x) = <<>> \/ TypesOf(x) = <<"debit", "credit">>)
  /\ [][\A s \in Sessions :
          (/\ pc[s] = "lock_wait"
           /\ pc'[s] # "lock_wait"
           /\ transfers[_transfer_id[s]].status = "posted")
          => /\ result'[s] \in {InvalidState, Aborted}
             /\ store' = store]_vars

\* two calls on one transfer overlapped: one succeeded, the one that waited
\* for the lock got the not-pending error, and the transfer has two entries
C2_Witness ==
  \E s1, s2 \in Sessions :
    /\ s1 # s2 /\ _transfer_id[s1] = _transfer_id[s2]
    /\ pc[s1] = "idle" /\ pc[s2] = "idle"
    /\ result[s1] = Ok /\ result[s2] = InvalidState /\ waited[s2]
    /\ Len(EntriesOf(_transfer_id[s1])) = 2

\* ---- C3 ---------------------------------------------------------
\* C3: no double posting - once a transfer is posted, its row (status,
\* posted_at and the rest) and its ledger entries never change again, every
\* later post_transfer call on it that runs to its end fails with the
\* not-pending error, and the step in which it fails changes no row of any
\* table (so no balance either).
C3_NoDoublePosting ==
  [][\A x \in DOMAIN transfers :
       transfers[x].status = "posted" =>
         /\ x \in DOMAIN transfers' /\ transfers'[x] = transfers[x]
         /\ EntriesOf(x)' = EntriesOf(x)
         /\ \A s \in Sessions :
              (_transfer_id[s] = x /\ Returns(s)) =>
                /\ result'[s] \in {InvalidState, Aborted}
                /\ store' = store]_vars

\* a sequential second call (it never waited) on a posted transfer has failed
\* with the not-pending error and the transfer still has its two entries
C3_Witness ==
  \E s \in Sessions :
    /\ pc[s] = "idle" /\ result[s] = InvalidState /\ ~waited[s]
    /\ _transfer_id[s] \in DOMAIN transfers
    /\ transfers[_transfer_id[s]].status = "posted"
    /\ transfers[_transfer_id[s]].posted_at # NullRef
    /\ Len(EntriesOf(_transfer_id[s])) = 2

C4_WitnessBetweenInserts ==
  \E s \in Sessions :
    /\ pc[s] = "idle" /\ result[s] = Aborted
    /\ interrupted_at[s] = "insert_credit"
    /\ transfers[_transfer_id[s]].status = "pending"
    /\ EntriesOf(_transfer_id[s]) = <<>>

\* ---- C5 ---------------------------------------------------------
\* C5: a successful post_transfer on pending transfer T appends exactly two
\* entries to the ledger - a debit on T.from_account_id, then a credit on
\* T.to_account_id, both with T's amount, currency and id - and changes T
\* only by setting status to posted and posted_at to a timestamp; no other
\* transfer changes.
C5_PostEffect ==
  [][\A s \in Sessions :
       Succeeds(s) =>
         LET x == _transfer_id[s]
             T == transfers[x]
         IN /\ T.status = "pending"
            /\ AppendOnly
            /\ Appended =
                 << [account_id |-> T.from_account_id, transfer_id |-> <<x>>,
                     type |-> "debit", amount |-> T.amount,
                     currency |-> T.currency],
                    [account_id |-> T.to_account_id, transfer_id |-> <<x>>,
                     type |-> "credit", amount |-> T.amount,
                     currency |-> T.currency] >>
            /\ DOMAIN transfers' = DOMAIN transfers
            /\ transfers'[x].status = "posted"
            /\ transfers'[x].posted_at # NullRef
            /\ transfers'[x].posted_at = <<txn_start[s]>>
            /\ [transfers'[x] EXCEPT !.status = T.status,
                                     !.posted_at = T.posted_at] = T
            /\ \A y \in DOMAIN transfers : y # x => transfers'[y] = transfers[y]
            /\ accounts' = accounts]_vars

\* a call has succeeded: its transfer is posted with a timestamp and owns a
\* debit on the source and a credit on the destination
C5_Witness ==
  \E s \in Sessions :
    /\ pc[s] = "idle" /\ result[s] = Ok
    /\ LET x == _transfer_id[s] IN
         /\ transfers[x].status = "posted"
         /\ transfers[x].posted_at # NullRef
         /\ Len(EntriesOf(x)) = 2
         /\ EntriesOf(x)[1].account_id = transfers[x].from_account_id
         /\ EntriesOf(x)[2].account_id = transfers[x].to_account_id

\* ---- C6 ---------------------------------------------------------
\* C6: when post_transfer fails a validation (transfer not found, not
\* pending, account missing, currency mismatch) the step changes no row: no
\* ledger entry is written and every transfer keeps its status, posted_at
\* and failed_reason - a pending transfer stays pending and is not moved to
\* failed.
C6_FailedValidationNoChange ==
  [][\A s \in Sessions :
       FailsValidation(s) =>
         /\ ledger_entries' = ledger_entries
         /\ transfers' = transfers
         /\ accounts' = accounts
         /\ \A x \in DOMAIN transfers :
              transfers[x].status = "pending" =>
                /\ transfers'[x].status = "pending"
                /\ transfers'[x].failed_reason = NULL
                /\ transfers'[x].posted_at = NullRef]_vars

\* a post of a pending transfer failed on the currency check; the transfer
\* is still pending, without failure reason and without entries
C6_Witness ==
  \E s \in Sessions :
    /\ pc[s] = "idle" /\ result[s] = CurrencyMismatch
    /\ transfers[_transfer_id[s]].status = "pending"
    /\ transfers[_transfer_id[s]].failed_reason = NULL
    /\ EntriesOf(_transfer_id[s]) = <<>>

\* ---- C7 ---------------------------------------------------------
\* the error the claimed order prescribes for one evaluation of the checks
ExpectedOutcome(p) ==
  IF ~p.found THEN NotFound
  ELSE IF p.status # "pending" THEN InvalidState
  ELSE IF p.from_currency = NULL \/ p.to_currency = NULL THEN InvalidAccount
  ELSE IF p.from_currency # p.currency \/ p.to_currency # p.currency
       THEN CurrencyMismatch
  ELSE Ok

\* C7: post_transfer applies its checks in the order not found, not pending,
\* account missing, currency mismatch and reports the first that fails: for
\* every combination of row found or not, status, and the two account
\* currencies (missing or not) the outcome is the one this order prescribes
\* - a non-pending transfer fails as not pending whatever its currencies are
\* - and the four errors are pairwise distinct.
C7_CheckOrder ==
  /\ probe.outcome # NoResult => probe.outcome = ExpectedOutcome(probe)
  /\ Cardinality(ValidationErrors) = 4

\* the checks ran on a posted transfer whose currency differs from that of
\* both accounts, and on it they reported the not-pending error
C7_Witness ==
  /\ probe.found /\ probe.status = "posted"
  /\ probe.from_currency \notin {NULL, probe.currency}
  /\ probe.to_currency \notin {NULL, probe.currency}
  /\ probe.outcome = InvalidState

\* the destination currency as the call of s reads it at the statement it
\* is at, or has read it
ToCurrencyRead(s) ==
  IF pc[s] = "select_to" THEN CurrencyOf(t[s].to_account_id) ELSE to_currency[s]

\* ---- C8 ---------------------------------------------------------
\* C8: currency enforcement - when the currency post_transfer looks up for
\* the source or for the destination account of a pending transfer (either
\* one, or both) differs from the transfer's declared currency, the call
\* fails with the currency-mismatch error and writes nothing; hence in every
\* call that has passed validation, and in every call that succeeds, the
\* source and destination currencies it looked up both equal the transfer's
\* currency, and so does the currency of the entries it writes.
C8_CurrencyEnforcement ==
  /\ [][\A s \in Sessions :
          (/\ pc[s] = "select_to" /\ pc'[s] # "select_to"
           /\ result'[s] # Aborted
           /\ from_currency[s] # NULL /\ ToCurrencyRead(s) # NULL
           /\ \/ from_currency[s] # transfers[_transfer_id[s]].currency
              \/ ToCurrencyRead(s) # transfers[_transfer_id[s]].currency)
          => /\ pc'[s] = "idle"
             /\ result'[s] = CurrencyMismatch
             /\ store' = store
             /\ EntriesOf(_transfer_id[s])' = <<>>]_vars
  /\ [](\A s \in Sessions :
          pc[s] \in Validated =>
            /\ from_currency[s] = transfers[_transfer_id[s]].currency
            /\ to_currency[s] = transfers[_transfer_id[s]].currency)
  /\ [][\A s \in Sessions :
          Succeeds(s) =>
            /\ from_currency[s] = transfers[_transfer_id[s]].currency
            /\ to_currency[s] = transfers[_transfer_id[s]].currency
            /\ \A i \in Indices(Appended) :
                 Appended[i].currency = transfers[_transfer_id[s]].currency]_vars

\* a transfer declared in EUR between two USD accounts: the post has failed
\* with the currency-mismatch error and the transfer has no entries
C8_Witness ==
  \E s \in Sessions :
    /\ pc[s] = "idle" /\ result[s] = CurrencyMismatch
    /\ LET T == transfers[_transfer_id[s]] IN
         /\ T.currency = "EUR" /\ T.status = "pending"
         /\ accounts[T.from_account_id].currency = "USD"
         /\ accounts[T.to_account_id].currency = "USD"
    /\ EntriesOf(_transfer_id[s]) = <<>>

\* ---- C9 ---------------------------------------------------------
\* the balance of account a recomputed entry by entry over the first n
\* entries of a ledger
RECURSIVE Recomputed(_, _, _)
Recomputed(ledger, a, n) ==
  IF n = 0 THEN 0
  ELSE Recomputed(ledger, a, n - 1)
       + (IF ledger[n].account_id # a THEN 0
          ELSE IF ledger[n].type = "credit" THEN ledger[n].amount
          ELSE 0 - ledger[n].amount)

\* C9: balance correctness - for every account the balance of the
\* account_balances view equals the sum of the amounts of its credit entries
\* minus the sum of the amounts of its debit entries, it is 0 for an account
\* without entries, and a step that appends entries changes each account's
\* balance by exactly its appended credits minus its appended debits (a
\* single appended credit of x raises it by x).
C9_BalanceCorrect ==
  /\ [](\A a \in DOMAIN accounts :
          /\ balance(a) = Recomputed(ledger_entries, a, Len(ledger_entries))
          /\ ~HasEntries(a) => balance(a) = 0)
  /\ [][AppendOnly /\
        \A a \in DOMAIN accounts :
          /\ balance(a)' = balance(a) + Recomputed(Appended, a, Len(Appended))
          /\ (Len(Appended) = 1 /\ Appended[1].type = "credit"
              /\ Appended[1].account_id = a) =>
               balance(a)' = balance(a) + Appended[1].amount]_vars

\* one account with a negative balance, one with a positive balance and one
\* without entries whose balance is 0
C9_Witness ==
  \E a, b, c \in DOMAIN accounts :
    /\ balance(a) < 0 /\ balance(b) > 0
    /\ HasEntries(a) /\ HasEntries(b)
    /\ ~HasEntries(c) /\ balance(c) = 0

\* ---- C10 --------------------------------------------------------
\* C10: a successful post of a transfer of amount m from A to B lowers A's
\* balance by exactly m, raises B's by exactly m and leaves every other
\* account's balance unchanged; a call whose currencies match passes
\* validation whatever the source balance is (no sufficient-funds check), so
\* a source at balance 0 ends at -m.
C10_PostMovesBalance ==
  /\ [][\A s \in Sessions :
          Succeeds(s) =>
            LET T == transfers[_transfer_id[s]] IN
              \A a \in DOMAIN accounts :
                balance(a)' =
                  IF a = T.from_account_id THEN balance(a) - T.amount
                  ELSE IF a = T.to_account_id THEN balance(a) + T.amount
                  ELSE balance(a)]_vars
  /\ [][\A s \in Sessions :
          (/\ pc[s] = "select_to" /\ pc'[s] # "select_to"
           /\ result'[s] # Aborted
           /\ from_currency[s] = transfers[_transfer_id[s]].currency
           /\ ToCurrencyRead(s) = transfers[_transfer_id[s]].currency)
          => pc'[s] = "insert_debit"]_vars
  /\ [](\A s \in Sessions : pc[s] = "commit" => ENABLED Commit(s))

\* a transfer was posted from an account without other entries: the source
\* stands at minus the amount, the destination has gained it, a third
\* account is untouched
C10_Witness ==
  \E s \in Sessions :
    /\ pc[s] = "idle" /\ result[s] = Ok
    /\ LET T == transfers[_transfer_id[s]] IN
         /\ balance(T.from_account_id) = 0 - T.amount
         /\ balance(T.to_account_id) >= T.amount
         /\ \E c \in DOMAIN accounts :
              c \notin {T.from_account_id, T.to_account_id} /\ balance(c) = 0

\* ---- C11 --------------------------------------------------------
StatusChanged(x) ==
  x \in DOMAIN transfers /\ x \in DOMAIN transfers'
  /\ transfers'[x].status # transfers[x].status

PostedBy(x) ==
  /\ transfers[x].status = "pending" /\ transfers'[x].status = "posted"
  /\ transfers'[x].posted_at # NullRef
  /\ \E c \in Callers : post_transfer(c, x)

C12_CreatedPending ==
  [][\A x \in DOMAIN transfers' \ DOMAIN transfers :
       /\ transfers'[x].status = "pending"
       /\ transfers'[x].posted_at = NullRef
       /\ transfers'[x].failed_reason = NULL
       /\ \A i \in 1..Len(ledger_entries') :
            ledger_entries'[i].transfer_id # Ref(x)]_vars

\* ---- C20 --------------------------------------------------------
\* C20: post_transfer checks neither ownership nor role - whoever calls it,
\* the call returns what the transfer's state and the currencies determine
\* and, when that is success, writes the two entries and marks the transfer
\* posted; an error leaves the store as it was.
C20_NoOwnershipCheck ==
  [][\A c \in Callers, x \in TransferIds :
       post_transfer(c, x) =>
         /\ last'.response = post_transfer_outcome(x)
         /\ last'.response = Ok =>
              /\ transfers'[x].status = "posted"
              /\ Appended = <<debit_entry(x, transfers[x]),
                              credit_entry(x, transfers[x])>>
         /\ last'.response # Ok => store' = store]_vars

\* a caller without the admin role who owns neither account and did not
\* create the transfer has posted it
C20_Witness ==
  /\ last.op = "post_transfer" /\ last.response = Ok
  /\ last.caller \in Users
  /\ \E x \in DOMAIN transfers :
       /\ transfers[x].status = "posted"
       /\ transfers[x].initiated_by # last.caller
       /\ accounts[transfers[x].from_account_id].user_id # last.caller
       /\ accounts[transfers[x].to_account_id].user_id # last.caller

\* ---- C13 --------------------------------------------------------
\* the request names the caller's own source account and a positive amount
\* in the account's currency, so that nothing but the choice of the
\* destination can be wrong with it
SoundSource(caller, a, m, c) ==
  /\ caller # Anonymous /\ m > 0
  /\ a \in DOMAIN accounts
  /\ accounts[a].user_id = caller /\ accounts[a].currency = c

\* the three ways of creating a transfer
CreateOps == {"insert_transfer", "internal_transfer", "send_to_user"}

\* a request answered with an error stores no transfer and no entry, and a
\* transfer row appears only in the step of a request that is served
ErrorsStoreNothing ==
  /\ (last' # last /\ last'.op \in CreateOps /\ last'.response # Ok) =>
       UNCHANGED <<transfers, ledger_entries>>
  /\ DOMAIN transfers' # DOMAIN transfers =>
       \/ last'.op \in CreateOps /\ last'.response = Ok
       \/ last' = last /\ handler.pc = "idle" /\ handler'.pc = "post"

\* what each way of creating a transfer answers to a request whose source
\* and destination are the account a
SameAccountResponses(caller, a, m, c) ==
  {transfers_insert_response(caller, a, a, m, caller),
   internal_transfer_response(caller, a, a, m, c)}
  \cup {send_to_user_response(caller, a, h, m, c) :
          h \in {g \in Handles : dest_account(profile_user_id(g), c) = a}}

\* C13: a transfer from an account to itself is never created - in every
\* reachable state each way of creating a transfer (direct insert,
\* internal-transfer handler, send_to_user) answers such a request with an
\* error, the error of the constraint transfers_accounts_distinct when
\* nothing else is wrong with the request, and a request answered with an
\* error stores nothing; hence every stored transfer has two different
\* accounts.
C13_SameAccountRejected ==
  /\ [](/\ \A x \in DOMAIN transfers :
             transfers[x].from_account_id # transfers[x].to_account_id
        /\ \A caller \in Callers \cup {Anonymous}, a \in AccountIds,
              m \in AmountRequests, c \in Currencies :
             /\ Ok \notin SameAccountResponses(caller, a, m, c)
             /\ SoundSource(caller, a, m, c) =>
                  SameAccountResponses(caller, a, m, c) = {SameAccount})
  /\ [][ErrorsStoreNothing]_vars

\* the internal-transfer handler has refused a transfer from an account to
\* itself with the error of the constraint
C13_Witness ==
  /\ last.op = "internal_transfer" /\ last.response = SameAccount
  /\ last.caller \in Users /\ handler.pc = "idle"

\* send_to_user has refused a transfer whose recipient account is the source
C13_WitnessSendToUser ==
  last.op = "send_to_user" /\ last.response = SameAccount

\* ---- C14 --------------------------------------------------------
InvalidAmountErrors == {InvalidAmount, AmountNotPositive, AmountMustBePositive}

\* the request names the caller's own source account, a different account
\* of the caller as destination and the accounts' currency, so that nothing
\* but the amount can be wrong with it
SoundAccounts(caller, a, b, c) ==
  /\ caller # Anonymous /\ a # b
  /\ a \in DOMAIN accounts /\ b \in DOMAIN accounts
  /\ accounts[a].user_id = caller /\ accounts[a].currency = c
  /\ accounts[b].user_id = caller /\ accounts[b].currency = c

\* what each way of creating a transfer answers to a request to move m
\* from a to b
AmountResponses(caller, a, b, m, c) ==
  {transfers_insert_response(caller, a, b, m, caller),
   internal_transfer_response(caller, a, b, m, c)}
  \cup {send_to_user_response(caller, a, h, m, c) :
          h \in {g \in Handles : dest_account(profile_user_id(g), c) = b}}

\* C14: a transfer with amount <= 0 is never created - in every reachable
\* state each way of creating a transfer (direct insert, internal-transfer
\* handler, send_to_user) answers such a request with an error, an
\* invalid-amount error when nothing else is wrong with the request, and a
\* request answered with an error stores nothing; hence every stored
\* transfer and every ledger entry has amount > 0.
C14_NonPositiveAmountRejected ==
  /\ [](/\ \A x \in DOMAIN transfers : transfers[x].amount > 0
        /\ \A i \in Indices(ledger_entries) : ledger_entries[i].amount > 0
        /\ \A caller \in Callers \cup {Anonymous}, a, b \in AccountIds,
              m \in AmountRequests, c \in Currencies :
             m <= 0 =>
               /\ Ok \notin AmountResponses(caller, a, b, m, c)
               /\ SoundAccounts(caller, a, b, c) =>
                    AmountResponses(caller, a, b, m, c) \subseteq InvalidAmountErrors)
  /\ [][ErrorsStoreNothing]_vars

\* ---- C15 --------------------------------------------------------
\* entry i carries the id of a posted transfer and has a matching opposite
\* entry: the other kind, for the same transfer, amount and currency
WrittenByPosting(i) ==
  LET e == ledger_entries[i]
  IN /\ e.transfer_id # NullRef
     /\ \E x \in DOMAIN transfers :
          e.transfer_id = Ref(x) /\ transfers[x].status = "posted"
     /\ \E j \in Indices(ledger_entries) :
          /\ ledger_entries[j].transfer_id = e.transfer_id
          /\ ledger_entries[j].type # e.type
          /\ ledger_entries[j].amount = e.amount
          /\ ledger_entries[j].currency = e.currency

\* C15 (as claimed): ledger entries are created exclusively by the posting
\* engine - in every reachable state every ledger entry carries the id of a
\* posted transfer and has a matching opposite entry.
C15_EntriesOnlyByPosting ==
  \A i \in Indices(ledger_entries) : WrittenByPosting(i)

\* ---- C16 --------------------------------------------------------
\* the entries of account a in insertion order: account, kind, amount and
\* currency of each
EntriesOn(a) ==
  LET es == SelectSeq(ledger_entries, LAMBDA e : e.account_id = a)
  IN [i \in Indices(es) |-> <<es[i].account_id, es[i].type, es[i].amount,
                              es[i].currency>>]

IsPrefix(s, u) == Len(s) <= Len(u) /\ SubSeq(u, 1, Len(s)) = s

\* C16 (as claimed): ledger entries are immutable and append-only - in every
\* step the entries of every account that survives the step are kept, in
\* order and with the same account, kind, amount and currency, and new
\* entries are only added after them; entries disappear only together with
\* their account.
C16_ImmutableAppendOnly ==
  [][\A a \in DOMAIN accounts :
       a \in DOMAIN accounts' => IsPrefix(EntriesOn(a), EntriesOn(a)')]_vars

\* ---- C18 --------------------------------------------------------
\* C18 (as claimed): an account that is referenced by at least one ledger
\* entry is never deleted - every step keeps each account that has ledger
\* entries, and keeps its entries.
C18_AccountWithEntriesKept ==
  [][\A a \in DOMAIN accounts :
       HasEntries(a) =>
         /\ a \in DOMAIN accounts'
         /\ Len(EntriesOn(a)') >= Len(EntriesOn(a))]_vars

\* ---- C17 --------------------------------------------------------
\* the accounts with the classification of this row
SameTuple(accs, row) ==
  {a \in DOMAIN accs :
     <<accs[a].user_id, accs[a].type, accs[a].currency, accs[a].name>> =
     <<row.user_id, row.type, row.currency, row.name>>}

AccountOps == {"insert_account", "create_default_account", "save_edit"}

\* a create or rename answered with an error changes no account
AccountErrorsChangeNothing ==
  (last' # last /\ last'.op \in AccountOps /\ last'.response # Ok) =>
    UNCHANGED accounts

\* the insert of a page that found no account at its select: it succeeds
\* when the tuple is still free and fails with DuplicateAccount, changing
\* nothing, when another create has taken the tuple meanwhile
RacingCreates ==
  \A tab \in Tabs, u \in Users :
    (<<tab, u>> \in creating /\ <<tab, u>> \notin creating') =>
      LET row == account_row(u, "USD", "Main")
      IN /\ Cardinality(SameTuple(accounts', row)) = 1
         /\ IF SameTuple(accounts, row) # {}
            THEN accounts' = accounts /\ last'.response = DuplicateAccount
            ELSE last'.response = Ok

\* C17: account uniqueness - in every reachable state no two accounts share
\* (owner, kind, currency, name), and creating an account for an existing
\* tuple is answered with DuplicateAccount by every caller the policies let
\* through (never with success); such a request changes nothing, also when
\* two creates for the same tuple run concurrently: exactly one succeeds.
C17_AccountUniqueness ==
  /\ [](/\ \A a \in DOMAIN accounts :
             Cardinality(SameTuple(accounts, accounts[a])) = 1
        /\ \A caller \in Callers, owner \in Users \cup {platform_user_id},
              c \in Currencies, n \in AccountNames \cup {"Treasury"} :
             LET row == account_row(owner, c, n)
             IN SameTuple(accounts, row) # {} =>
                  /\ accounts_insert_response(caller, row) # Ok
                  /\ accounts_policy(caller, owner) =>
                       accounts_insert_response(caller, row) = DuplicateAccount)
  /\ [][AccountErrorsChangeNothing /\ RacingCreates]_vars

\* a page that saw no account at its select has had its insert refused with
\* DuplicateAccount: another create for the tuple got in between
C17_Witness ==
  /\ last.op = "create_default_account" /\ last.response = DuplicateAccount
  /\ \E a \in DOMAIN accounts : accounts[a].user_id = last.caller
                               /\ accounts[a].name = "Main"

\* ---- C19 --------------------------------------------------------
\* the source or the destination account of transfer x does not exist
AccountMissing(x) ==
  \/ transfers[x].from_account_id \notin DOMAIN accounts
  \/ transfers[x].to_account_id \notin DOMAIN accounts

\* C19: post_transfer fails with InvalidAccount whenever the source or the
\* destination account of a pending transfer does not exist at posting time
\* - in every state a call for such a transfer returns InvalidAccount - and
\* a call that returns an error writes nothing: no entry is added and the
\* transfer stays as it was, pending.
C19_MissingAccountRejected ==
  /\ [](\A x \in DOMAIN transfers :
          (transfers[x].status = "pending" /\ AccountMissing(x)) =>
            post_transfer_outcome(x) = InvalidAccount)
  /\ [][(last'.op = "post_transfer" /\ last'.response # Ok) =>
          UNCHANGED <<accounts, transfers, ledger_entries, clock>>]_vars

\* post_transfer was called for a pending transfer whose source account
\* exists and whose destination account does not; it returned
\* InvalidAccount, no entry was written and the transfer is still pending
C19_Witness ==
  /\ last.op = "post_transfer" /\ last.response = InvalidAccount
  /\ 1 \in DOMAIN transfers /\ transfers[1].status = "pending"
  /\ transfers[1].from_account_id \in DOMAIN accounts
  /\ transfers[1].to_account_id \notin DOMAIN accounts
  /\ ledger_entries = <<>>

\* ---- C23 --------------------------------------------------------
\* the transfer row x is deleted in this step
TransferDeleted(x) == x \in DOMAIN transfers /\ x \notin DOMAIN transfers'

\* C23: deleting a transfer record never destroys ledger entries - in the
\* step that deletes a transfer every entry is kept in place with the same
\* account, kind, amount and currency, the entries that referred to the
\* transfer have their reference set to null and the others keep theirs, so
\* the balance of every account is unchanged.
C23_DeleteTransferKeepsEntries ==
  [][\A x \in TransferIds :
       TransferDeleted(x) =>
         /\ Len(ledger_entries') = Len(ledger_entries)
         /\ \A i \in Indices(ledger_entries) :
              /\ ledger_entries'[i].account_id = ledger_entries[i].account_id
              /\ ledger_entries'[i].type = ledger_entries[i].type
              /\ ledger_entries'[i].amount = ledger_entries[i].amount
              /\ ledger_entries'[i].currency = ledger_entries[i].currency
              /\ ledger_entries'[i].transfer_id =
                   IF ledger_entries[i].transfer_id = Ref(x) THEN NullRef
                   ELSE ledger_entries[i].transfer_id
         /\ \A a \in AccountIds : balance(a)' = balance(a)]_vars

\* a posted transfer has been deleted: its debit and its credit are still in
\* the ledger, without a transfer reference
C23_Witness ==
  /\ deleted.transfers # {}
  /\ \E i, j \in Indices(ledger_entries) :
       /\ ledger_entries[i].type = "debit" /\ ledger_entries[j].type = "credit"
       /\ ledger_entries[i].transfer_id = NullRef
       /\ ledger_entries[j].transfer_id = NullRef
       /\ ledger_entries[i].amount = ledger_entries[j].amount
       /\ ledger_entries[i].account_id # ledger_entries[j].account_id

\* ---- C24 --------------------------------------------------------
\* the caller may not debit account a in currency c: not signed in, no such
\* account, another user's account, or an account in another currency
NotDebitable(caller, a, c) ==
  \/ caller = Anonymous
  \/ a \notin DOMAIN accounts
  \/ accounts[a].user_id # caller
  \/ accounts[a].currency # c

\* the step is a call of send_to_user that created a transfer
SendToUserCreates ==
  /\ DOMAIN transfers' # DOMAIN transfers
  /\ last'.op = "send_to_user" /\ handler' = handler

\* C24: send_to_user only debits an account owned by the caller - in every
\* reachable state a call by an unauthenticated caller, or for a source
\* account that does not exist, belongs to another user or has another
\* currency, fails; a failed call creates no transfer and no ledger entry; and
\* every transfer that a call creates has initiated_by = caller = owner of
\* the source account, whose entry is the debit.
C24_SendToUserOwnSource ==
  /\ [](\A caller \in Callers \cup {Anonymous}, a \in AccountIds,
           h \in Handles, m \in AmountRequests, c \in Currencies :
          NotDebitable(caller, a, c) =>
            send_to_user_response(caller, a, h, m, c) # Ok)
  /\ [][/\ (last' # last /\ last'.op = "send_to_user" /\ last'.response # Ok) =>
            UNCHANGED <<transfers, ledger_entries>>
        /\ SendToUserCreates =>
             \A x \in DOMAIN transfers' \ DOMAIN transfers :
               /\ transfers'[x].initiated_by = last'.caller
               /\ last'.caller # Anonymous
               /\ accounts[transfers'[x].from_account_id].user_id = last'.caller
               /\ accounts[transfers'[x].from_account_id].currency =
                    transfers'[x].currency
               /\ \A i \in Indices(Appended) :
                    Appended[i].type = "debit" =>
                      Appended[i].account_id = transfers'[x].from_account_id]_vars

\* send_to_user has refused a caller who does not own the source account,
\* while another user holds an account; nothing was stored
C24_Witness ==
  /\ last.op = "send_to_user" /\ last.response = SourceNotOwned
  /\ last.caller \in Users
  /\ \E a \in DOMAIN accounts : accounts[a].user_id # last.caller
  /\ transfers = <<>> /\ ledger_entries = <<>>

\* send_to_user has created and posted a transfer from the caller's account
C24_WitnessCreated ==
  /\ last.op = "send_to_user" /\ last.response = Ok
  /\ \E x \in DOMAIN transfers :
       /\ transfers[x].initiated_by = last.caller
       /\ accounts[transfers[x].from_account_id].user_id = last.caller
       /\ transfers[x].status = "posted"

C28_WitnessFailed ==
  /\ last.op = "send_to_user" /\ last.response = RecipientNoAccount
  /\ transfers = <<>> /\ ledger_entries = <<>>

\* ---- C25 --------------------------------------------------------
\* the entries that refer to transfer x, of one kind
EntriesOfType(x, type) == SelectSeq(EntriesOf(x), LAMBDA e : e.type = type)

\* C25 (as claimed): structural ledger/transfer consistency - in every
\* reachable state each posted transfer has exactly one debit entry, on its
\* source account, and exactly one credit entry, on its destination account,
\* both with the transfer's amount and currency, and each transfer in any
\* other status has no ledger entry referring to it.
C25_StructuralConsistency ==
  \A x \in DOMAIN transfers :
    IF transfers[x].status = "posted"
    THEN /\ EntriesOfType(x, "debit") = <<debit_entry(x, transfers[x])>>
         /\ EntriesOfType(x, "credit") = <<credit_entry(x, transfers[x])>>
    ELSE EntriesOf(x) = <<>>

\* ---- C27 --------------------------------------------------------
\* C27 (as claimed): in every reachable state the currency of each ledger
\* entry equals the current currency of the account the entry is on, so that
\* the balance of an account never mixes currencies.
C27_EntryCurrencyIsAccountCurrency ==
  \A i \in Indices(ledger_entries) :
    ledger_entries[i].account_id \in DOMAIN accounts =>
      ledger_entries[i].currency = accounts[ledger_entries[i].account_id].currency

\* ---- C21 --------------------------------------------------------
\* the ledger after posting transfer x and then transfer y, one after the
\* other, from the empty ledger
PostedInOrder(x, y) ==
  <<debit_entry(x, transfers[x]), credit_entry(x, transfers[x]),
    debit_entry(y, transfers[y]), credit_entry(y, transfers[y])>>

\* the balance of account a after both transfers were posted
BalanceAfterBoth(a) ==
  SumSeq([x \in PairTransfers |->
            (IF transfers[x].to_account_id = a THEN transfers[x].amount ELSE 0)
            - (IF transfers[x].from_account_id = a THEN transfers[x].amount ELSE 0)])

\* the other session has made a call for the same transfer
SameTransferCalled(s) ==
  \E s2 \in Sessions \ {s} :
    txn_start[s2] > 0 /\ _transfer_id[s2] = _transfer_id[s]

\* C21: posts of two different pending transfers never block or interfere
\* with each other - a call waits for a row lock only when the other call is
\* for the same transfer; a call whose transfer no other call posts returns
\* success without having waited, in every interleaving; and when both calls
\* have returned, the ledger is the one of posting the two transfers one
\* after the other, in one of the two orders, both transfers are posted and
\* every balance is the sum of the two movements - also when the transfers
\* have an account in common.
C21_DifferentTransfersIndependent ==
  /\ [](\A s \in Sessions :
          /\ (pc[s] = "lock_wait" \/ waited[s]) => SameTransferCalled(s)
          /\ (txn_start[s] > 0 /\ pc[s] = "idle" /\ ~SameTransferCalled(s)) =>
               result[s] = Ok)
  /\ [](\A s1, s2 \in Sessions :
          (/\ s1 # s2 /\ _transfer_id[s1] # _transfer_id[s2]
           /\ txn_start[s1] > 0 /\ txn_start[s2] > 0
           /\ pc[s1] = "idle" /\ pc[s2] = "idle")
          => /\ ledger_entries \in
                  {PostedInOrder(_transfer_id[s1], _transfer_id[s2]),
                   PostedInOrder(_transfer_id[s2], _transfer_id[s1])}
             /\ \A x \in PairTransfers : transfers[x].status = "posted"
             /\ \A a \in PairAccounts : balance(a) = BalanceAfterBoth(a))

\* two calls for two different transfers that have an account in common are
\* both about to commit, neither having waited
C21_Witness ==
  /\ \A s \in Sessions : pc[s] = "commit" /\ ~waited[s]
  /\ \E s1, s2 \in Sessions :
       /\ _transfer_id[s1] # _transfer_id[s2]
       /\ transfers[_transfer_id[s1]].to_account_id =
            transfers[_transfer_id[s2]].from_account_id

\* both calls have returned success; the call that began later committed first
C21_WitnessBothPosted ==
  \E s1, s2 \in Sessions :
    /\ _transfer_id[s1] = 1 /\ _transfer_id[s2] = 2
    /\ txn_start[s1] < txn_start[s2]
    /\ pc[s1] = "idle" /\ pc[s2] = "idle"
    /\ result[s1] = Ok /\ result[s2] = Ok
    /\ ledger_entries = PostedInOrder(2, 1)
    /\ transfers[1].from_account_id = transfers[2].to_account_id

\* ------------------------------------------------------------------
\* C22: a read of the balances is never blocked by a post in progress,
\* and it sees committed rows only: for each transfer either none or both
\* of its entries, so the balances read are those of a set of completely
\* posted transfers and their sum is the same as before the posts
\* ------------------------------------------------------------------
\* the balance of account a when exactly the transfers of set S are posted
BalanceWhenPosted(S, a) ==
  SumSeq([x \in PairTransfers |->
            IF x \in S /\ transfers[x].to_account_id = a
            THEN transfers[x].amount ELSE 0])
  - SumSeq([x \in PairTransfers |->
              IF x \in S /\ transfers[x].from_account_id = a
              THEN transfers[x].amount ELSE 0])

SeenBalanceSum ==
  SumSeq([a \in DOMAIN seen.rows |-> seen.rows[a].balance])

ReadIsWholeTransfers ==
  seen # NoRead =>
    /\ \E S \in SUBSET PairTransfers :
         \A a \in DOMAIN seen.rows :
           seen.rows[a].balance = BalanceWhenPosted(S, a)
    /\ SeenBalanceSum = 0

C22_ReadsSeeCommittedState ==
  /\ []ReadIsWholeTransfers
  /\ [](ENABLED SelectAccountsWithBalance)
  /\ [][seen' # seen => seen'.rows = account_balances(ledger_entries)]_vars

\* a read made while a call had inserted one entry, or both, and not
\* committed them
C22_Witness ==
  /\ seen.in_flight # {}
  /\ \E s \in seen.in_flight : pc[s] \in {"insert_credit", "update_transfer", "commit"}
  /\ DOMAIN seen.rows = PairAccounts

\* ------------------------------------------------------------------
\* C26: under fair scheduling every call of post_transfer terminates:
\* a call holds at most one row lock, the lock of the transfer it posts,
\* and waits for at most one, a call that holds a lock never waits, so in
\* every state some running call can take a step, and each call
\* eventually returns success or an error
\* ------------------------------------------------------------------
LocksHeldBy(s) == {x \in DOMAIN lock : lock[x] = s}

NoDeadlock ==
  /\ \A s \in Sessions :
       /\ Cardinality(LocksHeldBy(s)) <= 1
       /\ LocksHeldBy(s) # {} =>
            /\ LocksHeldBy(s) = {_transfer_id[s]}
            /\ pc[s] \in PastLock
       /\ pc[s] = "lock_wait" =>
            /\ LocksHeldBy(s) = {}
            /\ lock[_transfer_id[s]] \in Sessions \ {s} =>
                 ENABLED PostTransferStep(lock[_transfer_id[s]])
  /\ (\E s \in Sessions : InTransaction(s)) =>
       \E s \in Sessions : ENABLED PostTransferStep(s)

C26_PostTransferTerminates ==
  /\ []NoDeadlock
  /\ \A s \in Sessions :
       InTransaction(s) ~> (~InTransaction(s) /\ result[s] # NoResult)

\* a call that had to wait for the lock of the other call has returned
C26_Witness ==
  \E s \in Sessions :
    /\ waited[s]
    /\ ~InTransaction(s)
    /\ result[s] # NoResult
    /\ \A s2 \in Sessions : result[s2] # NoResult

\* ------------------------------------------------------------------
\* C29: however often, one after the other or at the same time, Stripe
\* delivers the event of one payment intent, public.transactions holds at
\* most one row for it and the seller is credited at most once, and only
\* by a delivery that recorded the payment
\* ------------------------------------------------------------------
\* the credits on the seller's accounts
SellerCredits ==
  SelectSeq(ledger_entries,
            LAMBDA e : /\ e.type = "credit"
                       /\ e.account_id \in DOMAIN accounts
                       /\ accounts[e.account_id].user_id = "u1")

TransactionsOf(id) ==
  SelectSeq(transactions, LAMBDA r : r.stripe_payment_intent_id = id)

C29_AtMostOneCreditPerPaymentIntent ==
  /\ Len(TransactionsOf(payment_intent_id)) <= 1
  /\ Len(SellerCredits) <= 1
  /\ Len(SellerCredits) <= Len(TransactionsOf(payment_intent_id))
  /\ Cardinality({d \in Deliveries :
                    webhook.delivery[d].pc \notin {"idle", "insert_transaction"}})
       + Len(SellerCredits) <= 1

\* the seller was credited by one delivery, and another delivery of the
\* same event was turned away at the insert of the transaction
C29_Witness ==
  /\ Len(SellerCredits) = 1
  /\ Len(transactions) = 1
  /\ \E d1, d2 \in Deliveries :
       /\ webhook.delivery[d1].response = [status |-> 200, body |-> "Webhook processed"]
       /\ webhook.delivery[d2].response = [status |-> 500, body |-> "Database error"]

\* ------------------------------------------------------------------
\* C30: a payment the webhook has recorded in public.transactions is
\* eventually credited to the seller when Stripe delivers the event again
\* until a delivery is answered 200, also when the first delivery failed
\* after recording the transaction
\* ------------------------------------------------------------------
C30_RecordedPaymentEventuallyCredited ==
  (Len(transactions) > 0) ~> (Len(SellerCredits) > 0)

\* the payment is recorded, no credit exists, no delivery is in progress
\* and the event was just turned away as a duplicate
C30_Stuck ==
  /\ Len(transactions) = 1
  /\ Len(SellerCredits) = 0
  /\ \A d \in Deliveries : webhook.delivery[d].pc = "idle"
  /\ \E d \in Deliveries :
       webhook.delivery[d].response = [status |-> 500, body |-> "Database error"]
  /\ ~webhook.acked

====
